---- MODULE Spec2Model ----
(***************************************************************************)
(* Model of the signed-item pipeline of the bundler SDK: the tag codec,    *)
(* the deep-hash transcript (sync and streamed), the signer registry, the  *)
(* item (new / sign / as_bytes / from_bytes / from_file_position / verify) *)
(* and the bundle-file verifier.                                           *)
(*                                                                         *)
(* Byte strings.  A byte string is a sequence of cells.  The cell <<b>>    *)
(* is the byte b (0..255).  The cryptographic primitives are idealised: a  *)
(* digest or a signature is a byte string of its real length whose first   *)
(* cell <<tag, input>> names the primitive and the byte string it was      *)
(* computed from, followed by zero bytes.  Two such strings are equal      *)
(* exactly when primitive and input are equal (the primitive is treated as *)
(* injective), and every cell can be compared with every other cell.       *)
(***************************************************************************)
EXTENDS Integers, Sequences, FiniteSets

VARIABLES
    tx,      \* the item (BundlrTx) the caller holds
    buf,     \* the byte buffer last produced by as_bytes, or handed to from_bytes
    file,    \* the contents of the file used by the file-window operations
    last,    \* the outcome of the last operation
    sent,    \* the item last given to as_bytes and the bytes the call returned for it
    msgs,    \* the nodes and messages last given to a signer and to the verifiers for the item of buf
    hist,    \* per-specification bookkeeping of the inputs under test
    streams, \* the cursor of the open file and the file-window streams that share it
    retry,   \* the frame of post_chunk_with_retries and the post_chunk calls it made
    polling, \* the frame of await_confirmation and the status polls it made
    funding  \* the frame of fund and the calls it made to the chain and to the bundler

\* What the operations on a single item leave alone.
clients == <<streams, retry, polling, funding>>

vars == <<tx, buf, file, last, sent, msgs, hist, streams, retry, polling, funding>>

----------------------------------------------------------------------------
(* Cells and byte strings *)

B(n) == <<n>>

Bytes(s) == [i \in 1..Len(s) |-> <<s[i]>>]

Zeros(n) == [i \in 1..n |-> <<0>>]

IsByte(c) == Len(c) = 1

U8(c) == c[1]

\* s[from+1 .. to] in the 0-based, end-exclusive slice notation of the source.
Slice(s, from, to) == SubSeq(s, from + 1, to)

\* Whether the slice s[from..to] of the source is in range; out of range panics.
InRange(s, from, to) == from <= to /\ to <= Len(s)

RECURSIVE Concat(_)
Concat(ss) == IF ss = <<>> THEN <<>> ELSE Head(ss) \o Concat(Tail(ss))

Min(a, b) == IF a <= b THEN a ELSE b

\* A value computed once and named: Let(e, LAMBDA x : body) is body with x the value of e.
Let(value, Body(_)) == Body(value)

RECURSIVE Pow2(_)
Pow2(n) == IF n = 0 THEN 1 ELSE 2 * Pow2(n - 1)

\* n.to_string(): the decimal digits of n as ASCII bytes.
RECURSIVE DecDigits(_)
DecDigits(n) == IF n < 10 THEN <<48 + n>> ELSE DecDigits(n \div 10) \o <<48 + (n % 10)>>

to_string(n) == Bytes(DecDigits(n))

\* uN::from_le_bytes over plain byte cells.  Values of 2^30 and more are all
\* represented by 2^30, which is more than every length and count of the model.
RECURSIVE FromLe(_)
FromLe(s) ==
    IF s = <<>> THEN 0
    ELSE Let(FromLe(Tail(s)), LAMBDA hi :
            IF hi >= Pow2(22) THEN Pow2(30) ELSE Min(U8(Head(s)) + 256 * hi, Pow2(30)))

\* n.to_le_bytes() on width bytes.
RECURSIVE ToLe(_, _)
ToLe(n, width) == IF width = 0 THEN <<>> ELSE <<B(n % 256)>> \o ToLe(n \div 256, width - 1)

----------------------------------------------------------------------------
(* Literal buffers *)

LIST_AS_BUFFER == Bytes(<<108, 105, 115, 116>>)

BLOB_AS_BUFFER == Bytes(<<98, 108, 111, 98>>)

DATAITEM_AS_BUFFER == Bytes(<<100, 97, 116, 97, 105, 116, 101, 109>>)

ONE_AS_BUFFER == Bytes(<<49>>)

CHUNK_SIZE == 262144

----------------------------------------------------------------------------
(* Idealised primitives *)

SHA384_LEN == 48

KECCAK_LEN == 32

SHA256_LEN == 32

Sym(tag, input, len) == <<<<tag, input>>>> \o Zeros(len - 1)

\* The incremental hasher: update appends, finish hashes what was fed.
Sha384Finish(fed) == Sym("sha384", fed, SHA384_LEN)

sha384hash(b) == Sha384Finish(b)

keccak256(b) == Sym("keccak256", b, KECCAK_LEN)

sha256_digest(b) == Sym("sha256", b, SHA256_LEN)

----------------------------------------------------------------------------
(* Tag codec: Avro array<record{name:string,value:string}> *)

Tag(name, value) == [name |-> name, value |-> value]

\* Avro long: zig-zag, then base-128 little-endian with a continuation bit.
ZigZag(n) == IF n >= 0 THEN 2 * n ELSE -2 * n - 1

RECURSIVE Varint(_)
Varint(z) == IF z < 128 THEN <<B(z)>> ELSE <<B(128 + (z % 128))>> \o Varint(z \div 128)

encode_long(n) == Varint(ZigZag(n))

encode_string(str) == encode_long(Len(str)) \o str

encode_record(t) == encode_string(t.name) \o encode_string(t.value)

RECURSIVE encode_items(_)
encode_items(tags) ==
    IF tags = <<>> THEN <<>> ELSE encode_record(Head(tags)) \o encode_items(Tail(tags))

\* Vec<Tag>::encode: a non-empty array is one block (count, items), then the 0 terminator.
encode(tags) ==
    (IF tags # <<>> THEN encode_long(Len(tags)) \o encode_items(tags) ELSE <<>>) \o <<B(0)>>

\* The longest varint the model decodes; a longer one is a value no input of the model can satisfy.
MaxVarintBytes == 4

\* decode_variable: [ok, val, next] reading at 0-based position pos.
RECURSIVE decode_variable(_, _, _)
decode_variable(s, pos, j) ==
    IF j >= MaxVarintBytes \/ pos >= Len(s) \/ ~IsByte(s[pos + 1])
    THEN [ok |-> FALSE, val |-> 0, next |-> pos]
    ELSE LET b == U8(s[pos + 1]) IN
         IF b < 128
         THEN [ok |-> TRUE, val |-> b * Pow2(7 * j), next |-> pos + 1]
         ELSE Let(decode_variable(s, pos + 1, j + 1), LAMBDA r :
                 [ok |-> r.ok, val |-> (b - 128) * Pow2(7 * j) + r.val, next |-> r.next])

zag_i64(s, pos) ==
    Let(decode_variable(s, pos, 0), LAMBDA r :
        [ok |-> r.ok,
         val |-> IF r.val % 2 = 0 THEN r.val \div 2 ELSE -((r.val + 1) \div 2),
         next |-> r.next])

\* std::str::from_utf8 on the byte values of s.
RECURSIVE Utf8Ok(_)
Utf8Ok(s) ==
    IF s = <<>> THEN TRUE
    ELSE IF ~IsByte(s[1]) THEN FALSE
    ELSE LET b == U8(s[1])
             Cont(i, lo, hi) == Len(s) >= i /\ IsByte(s[i]) /\ U8(s[i]) >= lo /\ U8(s[i]) <= hi
         IN
         IF b < 128 THEN Utf8Ok(Tail(s))
         ELSE IF b >= 194 /\ b <= 223
              THEN Cont(2, 128, 191) /\ Utf8Ok(SubSeq(s, 3, Len(s)))
         ELSE IF b >= 224 /\ b <= 239
              THEN /\ Cont(2, IF b = 224 THEN 160 ELSE 128, IF b = 237 THEN 159 ELSE 191)
                   /\ Cont(3, 128, 191)
                   /\ Utf8Ok(SubSeq(s, 4, Len(s)))
         ELSE IF b >= 240 /\ b <= 244
              THEN /\ Cont(2, IF b = 240 THEN 144 ELSE 128, IF b = 244 THEN 143 ELSE 191)
                   /\ Cont(3, 128, 191)
                   /\ Cont(4, 128, 191)
                   /\ Utf8Ok(SubSeq(s, 5, Len(s)))
         ELSE FALSE

\* An Avro string: its length as a long, then that many bytes of UTF-8.
decode_string(s, pos) ==
    Let(zag_i64(s, pos), LAMBDA l :
        IF ~l.ok \/ l.val < 0 \/ l.next + l.val > Len(s)
        THEN [ok |-> FALSE, val |-> <<>>, next |-> pos]
        ELSE Let(Slice(s, l.next, l.next + l.val), LAMBDA str :
                 [ok |-> Utf8Ok(str), val |-> str, next |-> l.next + l.val]))

decode_record(s, pos) ==
    Let(decode_string(s, pos), LAMBDA n :
        IF ~n.ok THEN [ok |-> FALSE, val |-> Tag(<<>>, <<>>), next |-> pos]
        ELSE Let(decode_string(s, n.next), LAMBDA v :
                 [ok |-> v.ok, val |-> Tag(n.val, v.val), next |-> v.next]))

RECURSIVE decode_items(_, _, _, _)
decode_items(s, pos, n, acc) ==
    IF n = 0 THEN [ok |-> TRUE, val |-> acc, next |-> pos]
    ELSE Let(decode_record(s, pos), LAMBDA r :
             IF ~r.ok THEN [ok |-> FALSE, val |-> acc, next |-> pos]
             ELSE decode_items(s, r.next, n - 1, Append(acc, r.val)))

\* The array decoder: blocks of (count, items) up to a block count of 0; a negative
\* count is followed by the block's size in bytes, which is read and not used.
RECURSIVE decode_blocks(_, _, _)
decode_blocks(s, pos, acc) ==
    Let(zag_i64(s, pos), LAMBDA c :
        IF ~c.ok THEN [ok |-> FALSE, val |-> acc, next |-> pos]
        ELSE IF c.val = 0 THEN [ok |-> TRUE, val |-> acc, next |-> c.next]
        ELSE Let(IF c.val < 0 THEN zag_i64(s, c.next)
                 ELSE [ok |-> TRUE, val |-> 0, next |-> c.next], LAMBDA size :
                 IF ~size.ok THEN [ok |-> FALSE, val |-> acc, next |-> pos]
                 ELSE Let(decode_items(s, size.next, IF c.val < 0 THEN -c.val ELSE c.val, acc),
                          LAMBDA r :
                          IF ~r.ok THEN [ok |-> FALSE, val |-> acc, next |-> pos]
                          ELSE decode_blocks(s, r.next, r.val))))

\* <&mut [u8]>::decode: the tags, or InvalidTagEncoding; bytes after the terminator are not read.
decode(s) ==
    Let(decode_blocks(s, 0, <<>>), LAMBDA r :
        IF r.ok THEN [res |-> "Ok", tags |-> r.val]
        ELSE [res |-> "InvalidTagEncoding", tags |-> <<>>])

----------------------------------------------------------------------------
(* Files and streams *)

\* read_offset: exactly length bytes; the buffer is zero-filled and read() overwrites
\* as many bytes as the file holds from offset on.
read_offset(f, offset, length) ==
    [i \in 1..length |-> IF offset + i <= Len(f) THEN f[offset + i] ELSE B(0)]

StreamItem(ok, bytes) == [ok |-> ok, bytes |-> bytes]

\* A chunk that read_offset returned for the file offset `at`.
ReadItem(bytes, at) == [ok |-> TRUE, bytes |-> bytes, at |-> at]

\* The try_stream of from_file_position and verify_file_bundle: the chunks it yields
\* when polled to its end, having yielded `read` bytes so far.
RECURSIVE file_stream(_, _, _, _)
file_stream(f, start, data_size, read) ==
    IF read < data_size
    THEN Let(read_offset(f, start + read, Min(data_size - read, CHUNK_SIZE)), LAMBDA b :
             <<ReadItem(b, start + read)>> \o file_stream(f, start, data_size, read + Len(b)))
    ELSE <<>>

----------------------------------------------------------------------------
(* Deep hash *)

Chunk(b) == [kind |-> "Chunk", bytes |-> b, items |-> <<>>, children |-> <<>>]

Stream(items) == [kind |-> "Stream", bytes |-> <<>>, items |-> items, children |-> <<>>]

Chunks(children) == [kind |-> "Chunks", bytes |-> <<>>, items |-> <<>>, children |-> children]

Result(res, val) == [res |-> res, val |-> val]

\* The loop as it would be with a hasher that starts again at every chunk: only the
\* last chunk is hashed.
RECURSIVE stream_loop_restart(_, _, _)
stream_loop_restart(items, fed, length) ==
    IF items = <<>> THEN [res |-> "Ok", fed |-> fed, length |-> length]
    ELSE IF ~Head(items).ok THEN [res |-> "NoBytesLeft", fed |-> fed, length |-> length]
    ELSE stream_loop_restart(Tail(items), Head(items).bytes, length + Len(Head(items).bytes))

\* The while-let loop of the Stream branch: every chunk is fed to one hasher and its
\* length added; an Err item ends the hash with NoBytesLeft.
RECURSIVE stream_loop(_, _, _)
stream_loop(items, fed, length) ==
    IF items = <<>> THEN [res |-> "Ok", fed |-> fed, length |-> length]
    ELSE IF ~Head(items).ok THEN [res |-> "NoBytesLeft", fed |-> fed, length |-> length]
    ELSE stream_loop(Tail(items), fed \o Head(items).bytes, length + Len(Head(items).bytes))

hash_leaf(b) ==
    LET tag == BLOB_AS_BUFFER \o to_string(Len(b))
        c == sha384hash(tag) \o sha384hash(b)
    IN sha384hash(c)

hash_stream(items) ==
    Let(stream_loop(items, <<>>, 0), LAMBDA l :
        LET tag == BLOB_AS_BUFFER \o to_string(l.length)
            tagged_hash == sha384hash(tag) \o Sha384Finish(l.fed)
        IN IF l.res = "Ok" THEN Result("Ok", sha384hash(tagged_hash)) ELSE Result(l.res, <<>>))

list_tag(chunks) == LIST_AS_BUFFER \o to_string(Len(chunks))

RECURSIVE deep_hash(_), deep_hash_chunks(_, _)
deep_hash(chunk) ==
    CASE chunk.kind = "Chunk" -> Result("Ok", hash_leaf(chunk.bytes))
      [] chunk.kind = "Stream" -> hash_stream(chunk.items)
      [] chunk.kind = "Chunks" ->
            deep_hash_chunks(chunk.children, sha384hash(list_tag(chunk.children)))

deep_hash_chunks(chunks, acc) ==
    IF chunks = <<>> THEN Result("Ok", acc)
    ELSE Let(deep_hash(Head(chunks)), LAMBDA h :
             IF h.res # "Ok" THEN h
             ELSE deep_hash_chunks(Tail(chunks), sha384hash(acc \o h.val)))

RECURSIVE deep_hash_sync(_), deep_hash_chunks_sync(_, _)
deep_hash_sync(chunk) ==
    CASE chunk.kind = "Chunk" -> Result("Ok", hash_leaf(chunk.bytes))
      [] chunk.kind = "Chunks" ->
            deep_hash_chunks_sync(chunk.children, sha384hash(list_tag(chunk.children)))
      [] OTHER -> Result("Panic", <<>>)

deep_hash_chunks_sync(chunks, acc) ==
    IF chunks = <<>> THEN Result("Ok", acc)
    ELSE Let(deep_hash_sync(Head(chunks)), LAMBDA h :
             IF h.res # "Ok" THEN h
             ELSE deep_hash_chunks_sync(Tail(chunks), sha384hash(acc \o h.val)))

----------------------------------------------------------------------------
(* Signer registry *)

SignerMapVariants ==
    {"None", "Arweave", "ED25519", "Ethereum", "Solana", "InjectedAptos", "MultiAptos",
     "TypedEthereum", "Cosmos"}

\* impl From<u16> for SignerMap
SignerMap_from(t) ==
    CASE t = 1 -> "Arweave"
      [] t = 2 -> "ED25519"
      [] t = 3 -> "Ethereum"
      [] t = 4 -> "Solana"
      [] t = 5 -> "InjectedAptos"
      [] t = 6 -> "MultiAptos"
      [] t = 7 -> "TypedEthereum"
      [] OTHER -> "None"

\* The enum's discriminants: what `as u16` and the derived FromPrimitive use
\* (None = -1, which is 65535 as u16; Cosmos follows TypedEthereum).
discriminant(v) ==
    CASE v = "None" -> 65535
      [] v = "Arweave" -> 1
      [] v = "ED25519" -> 2
      [] v = "Ethereum" -> 3
      [] v = "Solana" -> 4
      [] v = "InjectedAptos" -> 5
      [] v = "MultiAptos" -> 6
      [] v = "TypedEthereum" -> 7
      [] v = "Cosmos" -> 8

\* SignerMap::from_u16 (derive FromPrimitive): "Missing" stands for Option::None.
from_u16(t) ==
    IF \E v \in SignerMapVariants \ {"None"} : discriminant(v) = t
    THEN CHOOSE v \in SignerMapVariants \ {"None"} : discriminant(v) = t
    ELSE "Missing"

as_u16(v) ==
    CASE v = "Arweave" -> 1
      [] v = "ED25519" -> 2
      [] v = "Ethereum" -> 3
      [] v = "Solana" -> 4
      [] v = "InjectedAptos" -> 5
      [] v = "MultiAptos" -> 6
      [] v = "TypedEthereum" -> 7
      [] OTHER -> 65535

ED25519_SIGNATURE_LENGTH == 64

ED25519_PUBLIC_KEY_LENGTH == 32

COMPACT_SIGNATURE_SIZE == 64

UNCOMPRESSED_PUBLIC_KEY_SIZE == 65

PUBLIC_KEY_SIZE == 33

Config(sig_length, pub_length) ==
    [res |-> "Ok", sig_length |-> sig_length, pub_length |-> pub_length]

\* SignerMap::get_config, every feature enabled; the variant None panics.
get_config(v) ==
    CASE v = "Arweave" -> Config(512, 512)
      [] v = "ED25519" -> Config(ED25519_SIGNATURE_LENGTH, ED25519_PUBLIC_KEY_LENGTH)
      [] v = "Ethereum" -> Config(COMPACT_SIGNATURE_SIZE + 1, UNCOMPRESSED_PUBLIC_KEY_SIZE)
      [] v = "Solana" -> Config(ED25519_SIGNATURE_LENGTH, ED25519_PUBLIC_KEY_LENGTH)
      [] v = "InjectedAptos" -> Config(ED25519_SIGNATURE_LENGTH, ED25519_PUBLIC_KEY_LENGTH)
      [] v = "MultiAptos" ->
            Config(ED25519_SIGNATURE_LENGTH * 32 + 4, ED25519_PUBLIC_KEY_LENGTH * 32 + 1)
      [] v = "Cosmos" -> Config(COMPACT_SIGNATURE_SIZE, PUBLIC_KEY_SIZE)
      [] v = "TypedEthereum" -> Config(COMPACT_SIGNATURE_SIZE + 1, 42)
      [] OTHER -> [res |-> "Panic", sig_length |-> 0, pub_length |-> 0]

----------------------------------------------------------------------------
(* Keys and the idealised signature schemes *)

\* Each signer holds one of the keys 1..MaxKey.
MaxKey == 1

Keys == 1..MaxKey

\* The key ids whose encodings are points of the curve: the signers' keys and one more.
CurvePoints == 1..(MaxKey + 1)

AllBytes(s) == \A i \in 1..Len(s) : IsByte(s[i])

\* ed25519: the compressed point of key k; PublicKey::from_bytes; Signature::from_bytes
\* (64 bytes whose last byte has its three high bits clear); the signature of k on m.
EdPub(k) == <<B(k)>> \o Zeros(ED25519_PUBLIC_KEY_LENGTH - 1)

EdPubOk(pk) ==
    /\ Len(pk) = ED25519_PUBLIC_KEY_LENGTH
    /\ AllBytes(pk)
    /\ U8(pk[1]) \in CurvePoints
    /\ pk = EdPub(U8(pk[1]))

EdSigOk(sig) ==
    /\ Len(sig) = ED25519_SIGNATURE_LENGTH
    /\ IsByte(sig[ED25519_SIGNATURE_LENGTH])
    /\ U8(sig[ED25519_SIGNATURE_LENGTH]) < 32

EdSign(k, m) == Sym("ed25519", <<B(k)>> \o m, ED25519_SIGNATURE_LENGTH)

EdVerify(pk, m, sig) == sig = EdSign(U8(pk[1]), m)

\* secp256k1: the uncompressed (0x04) and compressed (0x02/0x03) encodings of key k,
\* PublicKey::from_slice, the compact ECDSA signature of k on a 32-byte digest and its
\* recovery id.
SecpPub(k) == <<B(4), B(k)>> \o Zeros(UNCOMPRESSED_PUBLIC_KEY_SIZE - 2)

SecpPubCompressed(k) == <<B(2 + (k % 2)), B(k)>> \o Zeros(PUBLIC_KEY_SIZE - 2)

SecpPubOk(pk) ==
    /\ Len(pk) \in {PUBLIC_KEY_SIZE, UNCOMPRESSED_PUBLIC_KEY_SIZE}
    /\ AllBytes(pk)
    /\ U8(pk[2]) \in CurvePoints
    /\ pk = IF Len(pk) = PUBLIC_KEY_SIZE THEN SecpPubCompressed(U8(pk[2]))
            ELSE SecpPub(U8(pk[2]))

EcdsaSign(k, digest) == Sym("ecdsa", <<B(k)>> \o digest, COMPACT_SIGNATURE_SIZE)

RecoveryId(k) == k % 2

\* Address::from_slice(&keccak256(x)[12..]).
AddressOf(x) == Sym("address", x, 20)

\* web3::signing::recover: the address of the key that made the signature, with that
\* key's recovery id; any other signature and id in 0..3 recovers an address nobody
\* holds; an id outside 0..3 is an error.
recover(digest, sig64, recovery_id) ==
    IF recovery_id < 0 \/ recovery_id > 3 THEN Result("RecoveryError", <<>>)
    ELSE IF \E k \in CurvePoints : sig64 = EcdsaSign(k, digest) /\ recovery_id = RecoveryId(k)
    THEN LET k == CHOOSE k \in CurvePoints : sig64 = EcdsaSign(k, digest)
         IN Result("Ok", AddressOf(Tail(SecpPub(k))))
    ELSE Result("Ok", AddressOf(<<>>))

\* RSA-PSS under the key whose modulus is n.
RsaPssSign(n, m) == Sym("rsa-pss", n \o m, Len(n))

\* The length of public_key_to_pem() for a 4096-bit key.
PEM_LENGTH == 800

RsaPem(k) == <<B(45), B(k)>> \o Zeros(PEM_LENGTH - 2)

----------------------------------------------------------------------------
(* Signers *)

SignerKinds ==
    {"ArweaveSigner", "Ed25519Signer", "Secp256k1Signer", "AptosSigner", "MultiAptosSigner",
     "TypedEthereumSigner", "CosmosSigner"}

Signers == [kind : SignerKinds, key : Keys]

\* Signer::sig_type of each implementation.
sig_type(s) ==
    CASE s.kind = "ArweaveSigner" -> SignerMap_from(1)
      [] s.kind = "Ed25519Signer" -> SignerMap_from(2)
      [] s.kind = "Secp256k1Signer" -> "Ethereum"
      [] s.kind = "AptosSigner" -> "InjectedAptos"
      [] s.kind = "MultiAptosSigner" -> "MultiAptos"
      [] s.kind = "TypedEthereumSigner" -> "Ethereum"
      [] s.kind = "CosmosSigner" -> "Cosmos"

\* Signer::pub_key of each implementation; todo!() panics.
pub_key(s) ==
    CASE s.kind = "ArweaveSigner" -> Result("Ok", RsaPem(s.key))
      [] s.kind = "Ed25519Signer" -> Result("Ok", EdPub(s.key))
      [] s.kind = "Secp256k1Signer" -> Result("Ok", SecpPub(s.key))
      [] s.kind = "AptosSigner" -> Result("Ok", EdPub(s.key))
      [] s.kind = "MultiAptosSigner" -> Result("Ok", EdPub(s.key))
      [] s.kind = "TypedEthereumSigner" -> Result("Panic", <<>>)
      [] s.kind = "CosmosSigner" -> Result("Ok", SecpPubCompressed(s.key))

eth_hash_message(msg) ==
    keccak256(Bytes(<<25, 69, 116, 104, 101, 114, 101, 117, 109, 32, 83, 105, 103, 110, 101,
                      100, 32, 77, 101, 115, 115, 97, 103, 101, 58, 10>>)
              \o to_string(Len(msg)) \o msg)

aptos_message(msg) ==
    Bytes(<<65, 80, 84, 79, 83, 10, 109, 101, 115, 115, 97, 103, 101, 58, 32>>) \o msg
    \o Bytes(<<10, 110, 111, 110, 99, 101, 58, 32, 98, 117, 110, 100, 108, 114>>)

\* Signer::sign of each implementation.
sign(s, message) ==
    CASE s.kind = "ArweaveSigner" -> Result("Ok", message)
      [] s.kind = "Ed25519Signer" -> Result("Ok", EdSign(s.key, message))
      [] s.kind = "Secp256k1Signer" ->
            Result("Ok", EcdsaSign(s.key, eth_hash_message(message))
                         \o <<B(RecoveryId(s.key) + 27)>>)
      [] s.kind = "AptosSigner" -> Result("Ok", EdSign(s.key, aptos_message(message)))
      [] s.kind = "MultiAptosSigner" -> Result("Panic", <<>>)
      [] s.kind = "TypedEthereumSigner" -> Result("Panic", <<>>)
      [] s.kind = "CosmosSigner" -> Result("Ok", EcdsaSign(s.key, sha256_digest(message)))

----------------------------------------------------------------------------
(* Verifiers *)

\* ArweaveSigner::verify: Ok(true) is "Ok", Ok(false) is "InvalidSignature".
ArweaveSigner_verify(pk, message, signature) ==
    IF signature = RsaPssSign(pk, message) THEN "Ok" ELSE "InvalidSignature"

\* Ed25519Signer::verify: a malformed key or signature panics.
Ed25519Signer_verify(pk, message, signature) ==
    IF ~EdPubOk(pk) THEN "Panic"
    ELSE IF ~EdSigOk(signature) THEN "Panic"
    ELSE IF EdVerify(pk, message, signature) THEN "Ok"
    ELSE "InvalidSignature"

Secp256k1Signer_verify(public_key, message, signature) ==
    IF ~InRange(signature, 0, 64) \/ Len(signature) < 65 \/ ~IsByte(signature[65]) THEN "Panic"
    ELSE Let(recover(eth_hash_message(message), Slice(signature, 0, 64), U8(signature[65]) - 27),
             LAMBDA recovery_address :
             IF recovery_address.res # "Ok" THEN "RecoveryError"
             ELSE IF ~SecpPubOk(public_key) THEN "Secp256k1Error"
             ELSE IF AddressOf(Tail(public_key)) = recovery_address.val THEN "Ok"
             ELSE "InvalidSignature")

AptosSigner_verify(pk, message, signature) ==
    IF ~EdPubOk(pk) THEN "ED25519Error"
    ELSE IF ~EdSigOk(signature) THEN "ED25519Error"
    ELSE IF EdVerify(pk, aptos_message(message), signature) THEN "Ok"
    ELSE "InvalidSignature"

\* bit i of the bitmap, most significant bit of byte 0 first.
sig_included(encode_bitmap, i) ==
    (U8(encode_bitmap[(i \div 8) + 1]) \div Pow2(7 - (i % 8))) % 2 = 1

\* One turn of the loop over the 32 slots: the error that ends it, or one_false after it.
RECURSIVE multi_loop(_, _, _, _, _, _)
multi_loop(pk, message, signatures, encode_bitmap, i, one_false) ==
    IF i = 32 THEN (IF one_false THEN "InvalidSignature" ELSE "Ok")
    ELSE IF Len(encode_bitmap) < (i \div 8) + 1 THEN "Panic"
    ELSE IF ~sig_included(encode_bitmap, i)
    THEN multi_loop(pk, message, signatures, encode_bitmap, i + 1, one_false)
    ELSE IF ~InRange(signatures, i * 64, (i + 1) * 64) \/ ~InRange(pk, i * 32, (i + 1) * 32)
    THEN "Panic"
    ELSE Let(Slice(signatures, i * 64, (i + 1) * 64), LAMBDA signature :
         Let(Slice(pk, i * 32, (i + 1) * 32), LAMBDA pub_key_slc :
             IF ~EdPubOk(pub_key_slc) \/ ~EdSigOk(signature) THEN "ED25519Error"
             ELSE multi_loop(pk, message, signatures, encode_bitmap, i + 1,
                             IF EdVerify(pub_key_slc, message, signature) THEN one_false
                             ELSE FALSE)))

MultiAptosSigner_verify(pk, message, signature) ==
    LET sig_len == ED25519_SIGNATURE_LENGTH * 32 + 4
        bitmap_pos == sig_len - 4
    IN
    IF ~InRange(signature, 0, bitmap_pos) THEN "Panic"
    ELSE multi_loop(pk, message, Slice(signature, 0, bitmap_pos),
                    Slice(signature, bitmap_pos, Len(signature)), 0, FALSE)

CosmosSigner_verify(public_key, message, signature) ==
    IF Len(signature) # COMPACT_SIGNATURE_SIZE THEN "Secp256k1Error"
    ELSE IF ~SecpPubOk(public_key) THEN "Secp256k1Error"
    ELSE IF signature = EcdsaSign(U8(public_key[2]), sha256_digest(message)) THEN "Ok"
    ELSE "InvalidSignature"

\* The EIP-712 hash of the fixed domain and type over (address, message).
hash_structured_data(address, message) == Sym("eip712", address \o message, KECCAK_LEN)

\* The 42 ASCII bytes "0x" and 40 lower-case hex digits of the address of key k.
TypedAddress(k) == Bytes(<<48, 120, 48 + k>>) \o Bytes([i \in 1..39 |-> 48])

IsHexAddress(a) ==
    /\ Len(a) = 42
    /\ AllBytes(a)
    /\ U8(a[1]) = 48 /\ U8(a[2]) = 120
    /\ \A i \in 3..42 : U8(a[i]) \in (48..57) \cup (65..70) \cup (97..102)

TypedEthereumSigner_verify(public_key, message, signature) ==
    IF ~Utf8Ok(public_key) THEN "ParseError"
    ELSE IF ~IsHexAddress(public_key) THEN "Eip712Error"
    ELSE IF ~InRange(signature, 0, 64) \/ Len(signature) < 65 \/ ~IsByte(signature[65]) THEN "Panic"
    ELSE Let(hash_structured_data(public_key, message), LAMBDA data :
             IF U8(signature[65]) - 27 < 0 \/ U8(signature[65]) - 27 > 3 THEN "RecoveryError"
             ELSE IF \E k \in CurvePoints :
                        /\ Slice(signature, 0, 64) = EcdsaSign(k, data)
                        /\ U8(signature[65]) - 27 = RecoveryId(k)
                        /\ public_key = TypedAddress(k)
             THEN "Ok"
             ELSE "InvalidSignature")

\* SignerMap::verify
SignerMap_verify(v, pk, message, signature) ==
    CASE v = "Arweave" -> ArweaveSigner_verify(pk, message, signature)
      [] v = "ED25519" -> Ed25519Signer_verify(pk, message, signature)
      [] v = "Ethereum" -> Secp256k1Signer_verify(pk, message, signature)
      [] v = "Solana" -> Ed25519Signer_verify(pk, message, signature)
      [] v = "InjectedAptos" -> AptosSigner_verify(pk, message, signature)
      [] v = "MultiAptos" -> MultiAptosSigner_verify(pk, message, signature)
      [] v = "Cosmos" -> CosmosSigner_verify(pk, message, signature)
      [] v = "TypedEthereum" -> TypedEthereumSigner_verify(pk, message, signature)
      [] OTHER -> "Panic"

----------------------------------------------------------------------------
(* The item: BundlrTx *)

NoData ==
    [kind |-> "None", bytes |-> <<>>, start |-> 0, size |-> 0, read |-> 0, broken |-> FALSE]

BytesData(b) ==
    [kind |-> "Bytes", bytes |-> b, start |-> 0, size |-> 0, read |-> 0, broken |-> FALSE]

\* The stream of from_file_position: it reads the file when it is polled, from
\* start + read on, and has yielded `read` of its `size` bytes.  broken: the reads
\* through its file handle fail with an I/O error.
StreamData(start, size) ==
    [kind |-> "Stream", bytes |-> <<>>, start |-> start, size |-> size, read |-> 0,
     broken |-> FALSE]

\* What the stream of an item yields when polled to its end: the chunks of the file, or
\* the Err of the first read_offset(..)? when the reads fail.
stream_items(data, f) ==
    IF data.broken /\ data.read < data.size THEN <<StreamItem(FALSE, <<>>)>>
    ELSE file_stream(f, data.start, data.size, data.read)

BundlrTx(signature_type, signature, owner, target, anchor, tags, data) ==
    [signature_type |-> signature_type, signature |-> signature, owner |-> owner,
     target |-> target, anchor |-> anchor, tags |-> tags, data |-> data]

NoTx == BundlrTx("None", <<>>, <<>>, <<>>, <<>>, <<>>, NoData)

\* BundlrTx::new; randoms is what SystemRandom filled the anchor with.
BundlrTx_new(target, data, tags, randoms) ==
    BundlrTx("None", <<>>, <<>>, target, randoms, tags, BytesData(data))

is_signed(item) == item.signature # <<>> /\ item.signature_type # "None"

encoded_tags_of(tags) == IF tags # <<>> THEN encode(tags) ELSE <<>>

\* as_bytes as it would be with the kind of the data looked at before the signature.
as_bytes_data_first(item) ==
    IF item.data.kind = "Stream" THEN Result("InvalidDataType", <<>>)
    ELSE IF item.data.kind = "None" THEN Result("InvalidDataType", <<>>)
    ELSE IF ~is_signed(item) THEN Result("NoSignature", <<>>)
    ELSE Result("Ok",
                ToLe(discriminant(item.signature_type), 2)
                \o item.signature
                \o item.owner
                \o <<IF item.target = <<>> THEN B(0) ELSE B(1)>> \o item.target
                \o <<IF item.anchor = <<>> THEN B(0) ELSE B(1)>> \o item.anchor
                \o ToLe(Len(item.tags), 8)
                \o ToLe(Len(encoded_tags_of(item.tags)), 8)
                \o encoded_tags_of(item.tags)
                \o item.data.bytes)

\* BundlrTx::as_bytes
as_bytes(item) ==
    IF ~is_signed(item) THEN Result("NoSignature", <<>>)
    ELSE IF item.data.kind = "Stream" THEN Result("InvalidDataType", <<>>)
    ELSE IF item.data.kind = "None" THEN Result("InvalidDataType", <<>>)
    ELSE Let(encoded_tags_of(item.tags), LAMBDA encoded_tags :
             IF get_config(item.signature_type).res # "Ok" THEN Result("Panic", <<>>)
             ELSE Result("Ok",
                    ToLe(discriminant(item.signature_type), 2)
                    \o item.signature
                    \o item.owner
                    \o <<IF item.target = <<>> THEN B(0) ELSE B(1)>> \o item.target
                    \o <<IF item.anchor = <<>> THEN B(0) ELSE B(1)>> \o item.anchor
                    \o ToLe(Len(item.tags), 8)
                    \o ToLe(Len(encoded_tags), 8)
                    \o encoded_tags
                    \o item.data.bytes))

Parsed(res, item, data_start, detail) ==
    [res |-> res, item |-> item, data_start |-> data_start, detail |-> detail]

ParseFails(res) == Parsed(res, NoTx, 0, <<>>)

\* The presence byte as it would be read if every value but 0 stood for a field.
read_optional_nonzero(buffer, start) ==
    IF ~InRange(buffer, start, start + 1) THEN [res |-> "Panic", detail |-> <<>>, field |-> <<>>]
    ELSE IF U8(buffer[start + 1]) = 0 THEN [res |-> "Ok", detail |-> <<>>, field |-> <<>>]
    ELSE IF InRange(buffer, start + 1, start + 33)
    THEN [res |-> "Ok", detail |-> <<>>, field |-> Slice(buffer, start + 1, start + 33)]
    ELSE [res |-> "Panic", detail |-> <<>>, field |-> <<>>]

\* The presence byte at `start` and the field after it: [res, detail, field].
read_optional(buffer, start) ==
    IF ~InRange(buffer, start, start + 1) THEN [res |-> "Panic", detail |-> <<>>, field |-> <<>>]
    ELSE LET present == U8(buffer[start + 1]) IN
         IF present = 0 THEN [res |-> "Ok", detail |-> <<>>, field |-> <<>>]
         ELSE IF present = 1
         THEN IF InRange(buffer, start + 1, start + 33)
              THEN [res |-> "Ok", detail |-> <<>>, field |-> Slice(buffer, start + 1, start + 33)]
              ELSE [res |-> "Panic", detail |-> <<>>, field |-> <<>>]
         ELSE [res |-> "InvalidPresenceByte", detail |-> to_string(present), field |-> <<>>]

\* The tag block at tags_start: the two counters, the encoded tags, the count check.
TagsRead(res, tags, number_of_tags, tags_bytes, data_start) ==
    [res |-> res, tags |-> tags, number_of_tags |-> number_of_tags,
     tags_bytes |-> tags_bytes, data_start |-> data_start]

read_tags(buffer, tags_start) ==
    IF ~InRange(buffer, tags_start, tags_start + 16) THEN TagsRead("Panic", <<>>, 0, <<>>, 0)
    ELSE Let(FromLe(Slice(buffer, tags_start, tags_start + 8)), LAMBDA number_of_tags :
         Let(FromLe(Slice(buffer, tags_start + 8, tags_start + 16)), LAMBDA number_of_tags_bytes :
             IF ~InRange(buffer, tags_start + 16, tags_start + 16 + number_of_tags_bytes)
             THEN TagsRead("Panic", <<>>, 0, <<>>, 0)
             ELSE
             Let(Slice(buffer, tags_start + 16, tags_start + 16 + number_of_tags_bytes),
                 LAMBDA tags_bytes :
             Let(IF number_of_tags_bytes > 0 THEN decode(tags_bytes)
                 ELSE [res |-> "Ok", tags |-> <<>>], LAMBDA decoded :
                 IF decoded.res # "Ok" THEN TagsRead(decoded.res, <<>>, 0, <<>>, 0)
                 ELSE IF number_of_tags # Len(decoded.tags)
                 THEN TagsRead("InvalidTagEncoding", <<>>, 0, <<>>, 0)
                 ELSE TagsRead("Ok", decoded.tags, number_of_tags, tags_bytes,
                               tags_start + 16 + number_of_tags_bytes)))))

\* The header after the signature type: signature, owner, target, anchor, tags.
read_fields(buffer, signer, config) ==
    IF config.res # "Ok" THEN ParseFails("Panic")
    ELSE IF ~InRange(buffer, 2, 2 + config.sig_length) THEN ParseFails("Panic")
    ELSE IF ~InRange(buffer, 2 + config.sig_length, 2 + config.sig_length + config.pub_length)
    THEN ParseFails("Panic")
    ELSE
    Let(2 + config.sig_length + config.pub_length, LAMBDA target_start :
    Let(read_optional(buffer, target_start), LAMBDA target :
        IF target.res # "Ok" THEN Parsed(target.res, NoTx, 0, target.detail)
        ELSE
        Let(target_start + 1 + Len(target.field), LAMBDA anchor_start :
        Let(read_optional(buffer, anchor_start), LAMBDA anchor :
            IF anchor.res # "Ok" THEN Parsed(anchor.res, NoTx, 0, anchor.detail)
            ELSE
            Let(read_tags(buffer, anchor_start + 1 + Len(anchor.field)), LAMBDA t :
                IF t.res # "Ok" THEN ParseFails(t.res)
                ELSE Parsed("Ok",
                            BundlrTx(signer,
                                     Slice(buffer, 2, 2 + config.sig_length),
                                     Slice(buffer, 2 + config.sig_length, target_start),
                                     target.field, anchor.field, t.tags, NoData),
                            t.data_start, <<>>))))))

from_info_bytes(buffer) ==
    IF ~InRange(buffer, 0, 2) THEN ParseFails("Panic")
    ELSE Let(SignerMap_from(FromLe(Slice(buffer, 0, 2))), LAMBDA signer :
             read_fields(buffer, signer, get_config(signer)))

from_bytes(buffer) ==
    Let(from_info_bytes(buffer), LAMBDA r :
        IF r.res # "Ok" THEN r
        ELSE Parsed("Ok",
                    [r.item EXCEPT !.data = BytesData(Slice(buffer, r.data_start, Len(buffer)))],
                    r.data_start, <<>>))

\* from_file_position.  `checked` says whether the build checks arithmetic overflow:
\* size - data_start below zero panics when it does and wraps to a size near 2^64
\* (represented by 2^30) when it does not.
from_file_position(f, size, offset, length, checked) ==
    Let(from_info_bytes(read_offset(f, offset, length)), LAMBDA r :
        IF r.res # "Ok" THEN r
        ELSE IF size < r.data_start /\ checked THEN ParseFails("Panic")
        ELSE Parsed("Ok",
                    [r.item EXCEPT !.data =
                        StreamData(offset + r.data_start,
                                   IF size < r.data_start THEN Pow2(30) ELSE size - r.data_start)],
                    r.data_start, <<>>))

\* The node that is hashed: eight children in this order.
message_node(sig_type_bytes, owner, target, anchor, tags_leaf, data_chunk) ==
    Chunks(<<Chunk(DATAITEM_AS_BUFFER), Chunk(ONE_AS_BUFFER), Chunk(sig_type_bytes),
             Chunk(owner), Chunk(target), Chunk(anchor), Chunk(tags_leaf), data_chunk>>)

NoNode == Chunks(<<>>)

Hashed(res, val, node, data) == [res |-> res, val |-> val, node |-> node, data |-> data]

\* get_message over the file f: the message, the node it is the hash of, and the data
\* of the item afterwards (a stream has been polled to its end).  A stream of a
\* wrapped size never ends within any budget of reads: "Unbounded".
get_message(item, f) ==
    Let(encoded_tags_of(item.tags), LAMBDA encoded_tags :
    Let(to_string(as_u16(item.signature_type)), LAMBDA sig_type_bytes :
        CASE item.data.kind = "None" -> Hashed("Ok", <<>>, NoNode, item.data)
          [] item.data.kind = "Bytes" ->
                Let(message_node(sig_type_bytes, item.owner, item.target, item.anchor,
                                 encoded_tags, Chunk(item.data.bytes)), LAMBDA node :
                Let(deep_hash_sync(node), LAMBDA h :
                    Hashed(h.res, h.val, node, item.data)))
          [] item.data.kind = "Stream" ->
                IF item.data.size >= Pow2(30) THEN Hashed("Unbounded", <<>>, NoNode, item.data)
                ELSE
                Let(message_node(sig_type_bytes, item.owner, item.target, item.anchor,
                                 encoded_tags,
                                 Stream(stream_items(item.data, f))), LAMBDA node :
                Let(deep_hash(node), LAMBDA h :
                    Hashed(h.res, h.val, node, [item.data EXCEPT !.read = item.data.size])))))

Outcome(res, item, message, node) ==
    [res |-> res, item |-> item, message |-> message, node |-> node]

\* The rest of sign once signature type and owner are set: the message, the signature.
sign_keyed(keyed, signer, m) ==
    IF m.res # "Ok" THEN Outcome(m.res, [keyed EXCEPT !.data = m.data], <<>>, m.node)
    ELSE Let(sign(signer, m.val), LAMBDA sig :
             IF sig.res # "Ok"
             THEN Outcome(sig.res, [keyed EXCEPT !.data = m.data], m.val, m.node)
             ELSE Outcome("Ok", [keyed EXCEPT !.data = m.data, !.signature = sig.val],
                          m.val, m.node))

\* sign as it would be with the message computed before signature type and owner are
\* set: the signature is over the values of the signer before.
BundlrTx_sign_stale(item, signer, f) ==
    Let(pub_key(signer), LAMBDA pk :
        IF pk.res # "Ok"
        THEN Outcome(pk.res, [item EXCEPT !.signature_type = sig_type(signer)], <<>>, NoNode)
        ELSE Let([item EXCEPT !.signature_type = sig_type(signer), !.owner = pk.val],
                 LAMBDA keyed : sign_keyed(keyed, signer, get_message(item, f))))

\* BundlrTx::sign: the outcome and the item as the call leaves it.
BundlrTx_sign(item, signer, f) ==
    Let(pub_key(signer), LAMBDA pk :
        IF pk.res # "Ok"
        THEN Outcome(pk.res, [item EXCEPT !.signature_type = sig_type(signer)], <<>>, NoNode)
        ELSE Let([item EXCEPT !.signature_type = sig_type(signer), !.owner = pk.val],
                 LAMBDA keyed : sign_keyed(keyed, signer, get_message(keyed, f))))

\* BundlrTx::verify
BundlrTx_verify(item, f) ==
    Let(get_message(item, f), LAMBDA m :
        IF m.res # "Ok" THEN Outcome(m.res, [item EXCEPT !.data = m.data], <<>>, m.node)
        ELSE Outcome(SignerMap_verify(item.signature_type, item.owner, m.val, item.signature),
                     [item EXCEPT !.data = m.data], m.val, m.node))

----------------------------------------------------------------------------
(* The bundle file verifier *)

\* BASE64URL.encode: the alphabet A-Z a-z 0-9 - _ and '=' padding.
Base64Char(v) ==
    IF v < 26 THEN 65 + v
    ELSE IF v < 52 THEN 97 + (v - 26)
    ELSE IF v < 62 THEN 48 + (v - 52)
    ELSE IF v = 62 THEN 45 ELSE 95

RECURSIVE Base64Url(_)
Base64Url(s) ==
    IF s = <<>> THEN <<>>
    ELSE LET b1 == U8(s[1])
             b2 == IF Len(s) >= 2 THEN U8(s[2]) ELSE 0
             b3 == IF Len(s) >= 3 THEN U8(s[3]) ELSE 0
             c1 == Base64Char(b1 \div 4)
             c2 == Base64Char((b1 % 4) * 16 + b2 \div 16)
             c3 == IF Len(s) >= 2 THEN Base64Char((b2 % 16) * 4 + b3 \div 64) ELSE 61
             c4 == IF Len(s) >= 3 THEN Base64Char(b3 % 64) ELSE 61
         IN Bytes(<<c1, c2, c3, c4>>) \o Base64Url(SubSeq(s, 4, Len(s)))

\* U256::from_little_endian(..).as_u64(): a value above u64 panics.
as_u64(s) ==
    IF \E i \in 9..Len(s) : s[i] # B(0) THEN Result("Panic", 0)
    ELSE Result("Ok", FromLe(SubSeq(s, 1, 8)))

Header(size, id) == [size |-> size, id |-> id]

Item(tx_id, signature) == [tx_id |-> tx_id, signature |-> signature]

\* What verify_file_bundle returns, and the nodes and messages it gave the verifier.
Verified(res, items, detail, given) ==
    [res |-> res, items |-> items, detail |-> detail, given |-> given]

\* What one turn of the loop over the headers comes to.
Turn(res, detail, item, node, message) ==
    [res |-> res, detail |-> detail, item |-> item, node |-> node, message |-> message]

TurnFails(res, detail) == Turn(res, detail, Item(<<>>, <<>>), NoNode, <<>>)

\* The end of a turn: the deep hash of the node, the verifier, the item.
verify_node(id, signer, sig, node) ==
    Let(deep_hash(node), LAMBDA message :
        IF message.res # "Ok" THEN TurnFails(message.res, <<>>)
        ELSE Let(SignerMap_verify(signer, node.children[4].bytes, message.val, sig), LAMBDA v :
                 Turn(v, <<>>, IF v = "Ok" THEN Item(id, sig) ELSE Item(<<>>, <<>>),
                      node, message.val)))

\* The body of the loop over the headers, for the header (size, id) at `offset`; the
\* node is over the raw tag bytes and the stream of the data.  size - data_start below
\* zero panics in a build that checks overflow and otherwise wraps to a stream that
\* never ends ("Unbounded"), of which the node kept holds the first chunk.
verify_item(f, offset, size, id, checked) ==
    Let(read_offset(f, offset, 4096), LAMBDA buffer :
    Let(FromLe(Slice(buffer, 0, 2)), LAMBDA sig_type_n :
    Let(from_u16(sig_type_n), LAMBDA signer :
        IF signer = "Missing" THEN TurnFails("InvalidSignerType", <<>>)
        ELSE
        Let(get_config(signer), LAMBDA config :
        Let(2 + config.sig_length + config.pub_length, LAMBDA target_start :
        Let(read_optional(buffer, target_start), LAMBDA target :
            IF target.res # "Ok" THEN TurnFails(target.res, target.detail)
            ELSE
            Let(target_start + 1 + Len(target.field), LAMBDA anchor_start :
            Let(read_optional(buffer, anchor_start), LAMBDA anchor :
                IF anchor.res # "Ok" THEN TurnFails(anchor.res, anchor.detail)
                ELSE
                Let(read_tags(buffer, anchor_start + 1 + Len(anchor.field)), LAMBDA t :
                    IF t.res # "Ok" THEN TurnFails(t.res, <<>>)
                    ELSE IF size < t.data_start /\ checked THEN TurnFails("Panic", <<>>)
                    ELSE IF size < t.data_start
                    THEN Turn("Unbounded", <<>>, Item(<<>>, <<>>),
                              message_node(to_string(sig_type_n),
                                           Slice(buffer, 2 + config.sig_length, target_start),
                                           target.field, anchor.field, t.tags_bytes,
                                           Stream(<<ReadItem(read_offset(f, offset + t.data_start,
                                                                         CHUNK_SIZE),
                                                             offset + t.data_start)>>)),
                              <<>>)
                    ELSE verify_node(id, signer, Slice(buffer, 2, 2 + config.sig_length),
                            message_node(to_string(sig_type_n),
                                         Slice(buffer, 2 + config.sig_length, target_start),
                                         target.field, anchor.field, t.tags_bytes,
                                         Stream(file_stream(f, offset + t.data_start,
                                                            size - t.data_start, 0)))))))))))))

\* What is kept of one turn: the offset its item was read at, the node, the message.
TurnAt(offset, r) == [offset |-> offset, node |-> r.node, message |-> r.message]

\* Of a turn: the offset of the item and, of every chunk its data stream read, the
\* file offset and the length.
ReadsAt(turn) ==
    [offset |-> turn.offset,
     reads |-> IF turn.node = NoNode THEN <<>>
               ELSE [k \in 1..Len(turn.node.children[8].items) |->
                        [at |-> turn.node.children[8].items[k].at,
                         len |-> Len(turn.node.children[8].items[k].bytes)]]]

\* The loop over the headers after one turn r for the header h.
RECURSIVE verify_headers(_, _, _, _, _, _)
\* The loop as it would be if it went on to the next header after a failed turn.
after_turn_skip(f, headers, offset, items, given, checked, h, r) ==
    IF r.res # "Ok"
    THEN verify_headers(f, Tail(headers), offset + h.size, items,
                        Append(given, TurnAt(offset, r)), checked)
    ELSE verify_headers(f, Tail(headers), offset + h.size, Append(items, r.item),
                        Append(given, TurnAt(offset, r)), checked)

after_turn(f, headers, offset, items, given, checked, h, r) ==
    IF r.res # "Ok"
    THEN Verified(r.res, <<>>, r.detail, Append(given, TurnAt(offset, r)))
    ELSE verify_headers(f, Tail(headers), offset + h.size, Append(items, r.item),
                        Append(given, TurnAt(offset, r)), checked)

verify_headers(f, headers, offset, items, given, checked) ==
    IF headers = <<>> THEN Verified("Ok", items, <<>>, given)
    ELSE after_turn(f, headers, offset, items, given, checked, Head(headers),
                    verify_item(f, offset, Head(headers).size, Head(headers).id, checked))

\* The headers of the bundle: (size, id) for each of the bundle_length entries.
read_headers(header_bytes, bundle_length) ==
    [i \in 1..bundle_length |->
        Header(as_u64(Slice(header_bytes, 64 * (i - 1), 64 * (i - 1) + 32)),
               Base64Url(Slice(header_bytes, 64 * (i - 1) + 32, 64 * i)))]

\* verify_file_bundle.  A header count of 2^30 or more is a loop that does not end
\* within any budget of reads ("Unbounded").
verify_file_bundle(f, checked) ==
    Let(as_u64(read_offset(f, 0, 32)), LAMBDA bundle_length :
        IF bundle_length.res # "Ok" THEN Verified("Panic", <<>>, <<>>, <<>>)
        ELSE IF bundle_length.val >= Pow2(30) THEN Verified("Unbounded", <<>>, <<>>, <<>>)
        ELSE Let(read_headers(read_offset(f, 32, bundle_length.val * 64), bundle_length.val),
                 LAMBDA headers :
                 IF \E i \in 1..Len(headers) : headers[i].size.res # "Ok"
                 THEN Verified("Panic", <<>>, <<>>, <<>>)
                 ELSE verify_headers(f, [i \in 1..Len(headers) |->
                                            Header(headers[i].size.val, headers[i].id)],
                                     32 + 64 * bundle_length.val, <<>>, <<>>, checked)))

----------------------------------------------------------------------------
(* Inputs *)

Target32 == [i \in 1..32 |-> B(7)]

Targets == {<<>>, Target32}

\* What SystemRandom can fill the anchor with.
Randoms_one == [i \in 1..32 |-> B(9)]

Randoms == {Randoms_one}

Payloads == {<<>>, Bytes(<<104, 105>>)}

NameTag == Tag(Bytes(<<110>>), Bytes(<<118>>))

TypeTag == Tag(Bytes(<<116>>), Bytes(<<>>))

TagLists == {<<>>, <<NameTag>>, <<NameTag, TypeTag>>}

\* The signer types of the table of supported cryptosystems (tags 1..7).
SupportedKinds == SignerKinds \ {"CosmosSigner"}

NoSigner == [kind |-> "None", key |-> 0]

----------------------------------------------------------------------------
(* State *)

\* The last operation: its name, its outcome, the text an error carries, what it returned.
Last(op, res, detail, out) == [op |-> op, res |-> res, detail |-> detail, out |-> out]

Msg(node, message) == [node |-> node, message |-> message]

NoMsg == Msg(NoNode, <<>>)

\* sign, verify, bundle: what sign(), verify() and verify_file_bundle hashed for the
\* item of buf; leaf: the streamed leaf last given to deep_hash on its own.
NoMsgs == [sign |-> NoMsg, verify |-> NoMsg, bundle |-> NoMsg, leaf |-> NoMsg]

Sent(item, bytes) == [item |-> item, bytes |-> bytes]

NoSent == Sent(NoTx, <<>>)

\* The parameters of a hand-made buffer (see Crafted), or none.
NoInput == [sig_type |-> 0, target_present |-> 0, anchor_present |-> 0, number_of_tags |-> 0,
            tags_bytes |-> <<>>, place |-> "whole", length |-> 0, made |-> FALSE]

\* signer: who signed tx; verified: verify() returned Ok on tx as it is;
\* tampered: the field of tx changed since; origin: where tx and buf come from;
\* input: what buf was made of when it was made by hand; before: the item as it was
\* when sign was last called on it; turns: how many turns of its loop over the headers
\* verify_file_bundle began; given: those turns.
\* The arguments from_file_position was called with and the length of the prefix it parsed.
Window(size, offset, data_start) == [size |-> size, offset |-> offset, data_start |-> data_start]

NoWindow == Window(0, 0, 0)

Hist(signer, verified, tampered, origin) ==
    [signer |-> signer, verified |-> verified, tampered |-> tampered, origin |-> origin,
     input |-> NoInput, before |-> NoTx, turns |-> 0, given |-> <<>>, window |-> NoWindow]

\* No file-window stream is open and no client call is in flight.
\* The most items of a bundle file.
MaxItems == 2

Unopened == [open |-> FALSE, start |-> 0, size |-> 0, read |-> 0, got |-> <<>>, done |-> FALSE]

NoStreams == [cursor |-> 0, items |-> [i \in 1..MaxItems |-> Unopened]]

NoRetry ==
    [pc |-> "idle", upload_id |-> "None", offset |-> 0, retries |-> 0, resp |-> <<>>,
     calls |-> <<>>, out |-> <<>>]

NoPolling == [pc |-> "idle", confirmations |-> 0, reports |-> <<>>]

NoFunding ==
    [pc |-> "idle", has_address |-> FALSE, needs_fee |-> FALSE, amount |-> 0, fee |-> 0,
     tx_id |-> 0, log |-> <<>>, out |-> <<>>]

Idle ==
    /\ streams = NoStreams
    /\ retry = NoRetry
    /\ polling = NoPolling
    /\ funding = NoFunding

\* The process has not panicked and is not stuck in a loop without end.
Alive == last.res \notin {"Panic", "Unbounded"}

Held == tx # NoTx

Init ==
    /\ tx = NoTx
    /\ buf = <<>>
    /\ file = <<>>
    /\ last = Last("init", "Ok", <<>>, <<>>)
    /\ Idle
    /\ sent = NoSent
    /\ msgs = NoMsgs
    /\ hist = Hist(NoSigner, FALSE, "none", "none")

----------------------------------------------------------------------------
(* Operations on the item *)

\* A new session: BundlrTx::new.
New(target, data, tags, randoms) ==
    /\ tx' = BundlrTx_new(target, data, tags, randoms)
    /\ buf' = <<>>
    /\ file' = <<>>
    /\ last' = Last("new", "Ok", <<>>, <<>>)
    /\ sent' = NoSent
    /\ msgs' = NoMsgs
    /\ hist' = Hist(NoSigner, FALSE, "none", "new")
    /\ UNCHANGED clients

\* tx.sign(signer), the first signing of a new item.
Sign(signer) ==
    /\ Alive /\ Held
    /\ hist.signer = NoSigner /\ last.op \in {"new", "deep_hash"}
    /\ Let(BundlrTx_sign(tx, signer, file), LAMBDA r :
           /\ tx' = r.item
           /\ last' = Last("sign", r.res, <<>>, <<>>)
           /\ msgs' = [msgs EXCEPT !.sign = Msg(r.node, r.message)])
       /\ hist' = [hist EXCEPT !.signer = signer, !.verified = FALSE, !.before = tx]
    /\ UNCHANGED <<clients, buf, file, sent>>

\* tx.sign(signer) on an item that has been signed before, by this or another
\* program; once in a session.
SignAgain(signer) ==
    /\ Alive /\ Held
    /\ is_signed(tx) /\ ~is_signed(hist.before)
    /\ Let(BundlrTx_sign(tx, signer, file), LAMBDA r :
           /\ tx' = r.item
           /\ last' = Last("sign", r.res, <<>>, <<>>)
           /\ msgs' = [msgs EXCEPT !.sign = Msg(r.node, r.message)])
       /\ hist' = [hist EXCEPT !.signer = signer, !.verified = FALSE, !.before = tx]
    /\ UNCHANGED <<clients, buf, file, sent>>

\* The reads through the file handle of the item's stream start to fail: every
\* read_offset of the stream returns an I/O error from now on.
BreakFile ==
    /\ Alive /\ Held
    /\ tx.data.kind = "Stream" /\ ~tx.data.broken
    /\ tx' = [tx EXCEPT !.data.broken = TRUE]
    /\ last' = Last("io_error", "Ok", <<>>, <<>>)
    /\ UNCHANGED <<clients, buf, file, sent, msgs, hist>>

\* tx.verify()
Verify ==
    /\ Alive /\ Held
    /\ Let(BundlrTx_verify(tx, file), LAMBDA r :
           /\ tx' = r.item
           /\ last' = Last("verify", r.res, <<>>, <<>>)
           /\ msgs' = [msgs EXCEPT !.verify = Msg(r.node, r.message)]
           /\ hist' = [hist EXCEPT !.verified = (r.res = "Ok")])
    /\ UNCHANGED <<clients, buf, file, sent>>

\* tx.as_bytes(): the item is moved into the call; sent is the item and what the call
\* returned for it.  Bytes that differ from the ones the item was parsed from are those
\* of another item: msgs starts again.
AsBytes ==
    /\ Alive /\ Held
    /\ Let(as_bytes(tx), LAMBDA r :
           /\ buf' = IF r.res = "Ok" THEN r.val ELSE buf
           /\ sent' = Sent(tx, r.val)
           /\ last' = Last("as_bytes", r.res, <<>>, r.val)
           /\ msgs' = IF r.res = "Ok" /\ buf # <<>> /\ r.val # buf THEN NoMsgs ELSE msgs)
    /\ tx' = NoTx
    /\ UNCHANGED <<clients, file, hist>>

\* BundlrTx::from_bytes(buf)
FromBytes ==
    /\ Alive /\ ~Held
    /\ buf # <<>> \/ hist.input.made
    /\ Let(from_bytes(buf), LAMBDA r :
           /\ tx' = r.item
           /\ last' = Last("from_bytes", r.res, r.detail, <<>>))
    /\ hist' = [hist EXCEPT !.verified = FALSE, !.origin = "bytes"]
    /\ UNCHANGED <<clients, buf, file, sent, msgs>>

\* A changed byte: another byte value, or, for the symbolic first byte of a digest or
\* signature, a cell that differs from it.
TamperBytes == {0, 2, 29, 255}

Changed(cell) ==
    IF IsByte(cell) THEN {B(v) : v \in TamperBytes \ {U8(cell)}} ELSE {<<"changed", <<cell>>>>}

TamperedFields == {"signature", "owner", "target", "anchor", "tags", "data"}

\* The string of the item's field that a change of one byte is made in: for the tags,
\* the name of the first tag.
FieldBytes(item, field) ==
    CASE field = "signature" -> item.signature
      [] field = "owner" -> item.owner
      [] field = "target" -> item.target
      [] field = "anchor" -> item.anchor
      [] field = "tags" -> IF item.tags = <<>> THEN <<>> ELSE item.tags[1].name
      [] field = "data" -> item.data.bytes

WithField(item, field, bytes) ==
    CASE field = "signature" -> [item EXCEPT !.signature = bytes]
      [] field = "owner" -> [item EXCEPT !.owner = bytes]
      [] field = "target" -> [item EXCEPT !.target = bytes]
      [] field = "anchor" -> [item EXCEPT !.anchor = bytes]
      [] field = "tags" -> [item EXCEPT !.tags[1].name = bytes]
      [] field = "data" -> [item EXCEPT !.data.bytes = bytes]

\* The positions of a field that are changed: its first two bytes and its last.
TamperPositions(bytes) == {1, 2, Len(bytes)} \cap (1..Len(bytes))

\* One byte of one field of an in-memory item that verified is changed, lengths kept.
Tamper(field) ==
    /\ Alive /\ Held
    /\ last.op = "verify" /\ last.res = "Ok"
    /\ hist.tampered = "none"
    /\ tx.data.kind = "Bytes"
    /\ \E pos \in TamperPositions(FieldBytes(tx, field)) :
          \E cell \in Changed(FieldBytes(tx, field)[pos]) :
             /\ field = "tags" => U8(cell) < 128
             /\ tx' = WithField(tx, field, [FieldBytes(tx, field) EXCEPT ![pos] = cell])
    /\ last' = Last("tamper", "Ok", <<>>, <<>>)
    /\ hist' = [hist EXCEPT !.tampered = field, !.verified = FALSE]
    /\ UNCHANGED <<clients, buf, file, sent, msgs>>

ItemId(i) == [j \in 1..32 |-> B(i)]

RECURSIVE Repeat(_, _)
Repeat(bytes, n) == IF n = 0 THEN <<>> ELSE bytes \o Repeat(bytes, n - 1)

\* The bundle file of n items, each the bytes of buf: the count, the (size, id)
\* headers, the items.
BundleOf(bytes, n) ==
    ToLe(n, 32)
    \o Concat([i \in 1..n |-> ToLe(Len(bytes), 32) \o ItemId(i)])
    \o Repeat(bytes, n)

WriteBundle(n) ==
    /\ Alive
    /\ buf # <<>> \/ hist.input.made
    /\ file = <<>>
    /\ n \in 1..MaxItems
    /\ file' = BundleOf(buf, n)
    /\ last' = Last("write", "Ok", <<>>, <<>>)
    /\ UNCHANGED <<clients, tx, buf, sent, msgs, hist>>

\* BundlrTx::from_file_position on the first item of the bundle file, with the size
\* of its header or with a size of zero.
FromFilePosition(size, checked) ==
    /\ Alive /\ ~Held
    /\ file # <<>> /\ hist.origin # "file"
    /\ Let(from_file_position(file, size, 32 + 64 * FromLe(SubSeq(file, 1, 8)), Len(buf),
                              checked), LAMBDA r :
           /\ tx' = r.item
           /\ last' = Last("from_file_position", r.res, r.detail, <<>>)
           /\ hist' = [hist EXCEPT !.verified = FALSE, !.origin = "file",
                                   !.window = Window(size, 32 + 64 * FromLe(SubSeq(file, 1, 8)),
                                                     r.data_start)])
    /\ UNCHANGED <<clients, buf, file, sent, msgs>>

VerifyFileBundle(checked) ==
    /\ Alive
    /\ file # <<>> /\ last.op = "write"
    /\ Let(verify_file_bundle(file, checked), LAMBDA r :
           /\ last' = Last("verify_file_bundle", r.res, r.detail, r.items)
           /\ msgs' = [msgs EXCEPT !.bundle = IF r.given = <<>> \/ r.given[1].message = <<>>
                                             THEN NoMsg
                                             ELSE Msg(r.given[1].node, r.given[1].message)]
           /\ hist' = [hist EXCEPT !.turns = Len(r.given),
                                   !.given = [i \in 1..Len(r.given) |-> ReadsAt(r.given[i])]])
    /\ UNCHANGED <<clients, tx, buf, file, sent>>

\* The encodings of the one-tag list <<NameTag>> that another writer of the format can
\* emit: one block with its count; a block with a negative count and its size in
\* bytes; the one block and its terminator followed by a byte the reader never reaches.
TagForms == {"counted", "sized", "trailing"}

EncodedAs(form) ==
    CASE form = "counted" -> encode(<<NameTag>>)
      [] form = "sized" ->
            encode_long(-1) \o encode_long(Len(encode_record(NameTag)))
            \o encode_record(NameTag) \o <<B(0)>>
      [] form = "trailing" -> encode(<<NameTag>>) \o <<B(0)>>

\* The bytes of an item that another implementation of the format made and signed with
\* the ed25519 key k: the signature is over the node of the bytes as they are written.
ExternalItem(k, form, data) ==
    Let(EncodedAs(form), LAMBDA tags_bytes :
        ToLe(2, 2)
        \o EdSign(k, deep_hash_sync(message_node(to_string(2), EdPub(k), <<>>, Randoms_one,
                                                 tags_bytes, Chunk(data))).val)
        \o EdPub(k)
        \o <<B(0)>> \o <<B(1)>> \o Randoms_one
        \o ToLe(1, 8) \o ToLe(Len(tags_bytes), 8) \o tags_bytes \o data)

\* A new session that starts from the bytes of an item received from elsewhere.
Receive(k, form, data) ==
    /\ tx' = NoTx
    /\ buf' = ExternalItem(k, form, data)
    /\ file' = <<>>
    /\ last' = Last("receive", "Ok", <<>>, <<>>)
    /\ sent' = NoSent
    /\ msgs' = NoMsgs
    /\ hist' = Hist(NoSigner, FALSE, "none", "received")
    /\ UNCHANGED clients

NewItem ==
    \E target \in Targets, data \in Payloads, tags \in TagLists, randoms \in Randoms :
       New(target, data, tags, randoms)

Next ==
    \/ NewItem
    \/ \E signer \in Signers : Sign(signer)
    \/ Verify
    \/ AsBytes
    \/ FromBytes

Spec == Init /\ [][Next]_vars

\* The sessions in which one byte of a verified item is changed.
NextTamper ==
    \/ NewItem
    \/ \E signer \in Signers : Sign(signer)
    \/ Verify
    \/ \E field \in TamperedFields : Tamper(field)

SpecTamper == Init /\ [][NextTamper]_vars

\* The sessions in which the bytes of an item are put into a bundle file.
NextBundle ==
    \/ \E data \in Payloads, randoms \in Randoms : New(<<>>, data, <<NameTag>>, randoms)
    \/ \E signer \in Signers : Sign(signer)
    \/ Verify
    \/ AsBytes
    \/ FromBytes
    \/ \E k \in Keys, form \in TagForms, data \in Payloads : Receive(k, form, data)
    \/ \E n \in 1..MaxItems : WriteBundle(n)
    \/ \E size \in {0, Len(buf)}, checked \in BOOLEAN : FromFilePosition(size, checked)
    \/ \E checked \in BOOLEAN : VerifyFileBundle(checked)

SpecBundle == Init /\ [][NextBundle]_vars

----------------------------------------------------------------------------
(* The streamed leaf against the in-memory leaf *)

\* The most chunks a stream is split into.
MaxChunks == 3

\* The k - 1 places at which a payload of n bytes is cut into k chunks; two cuts at one
\* place leave an empty chunk between them.
Cuts(n, k) == {c \in [1..(k - 1) -> 0..n] : \A i \in 1..(k - 2) : c[i] <= c[i + 1]}

SplitAt(payload, c) ==
    [i \in 1..(Len(c) + 1) |->
        SubSeq(payload, (IF i = 1 THEN 0 ELSE c[i - 1]) + 1,
               IF i = Len(c) + 1 THEN Len(payload) ELSE c[i])]

\* Every way of splitting the payload into at most MaxChunks chunks; the empty payload
\* is also the stream of no chunk at all.
Splits(payload) ==
    (IF payload = <<>> THEN {<<>>} ELSE {})
    \cup UNION {{SplitAt(payload, c) : c \in Cuts(Len(payload), k)} : k \in 1..MaxChunks}

StreamOf(chunks) == Stream([i \in 1..Len(chunks) |-> StreamItem(TRUE, chunks[i])])

HashPayloads == Payloads \cup {Bytes(<<1, 2, 3>>)}

HashSigners == {s \in Signers : s.kind \in {"Ed25519Signer", "Secp256k1Signer"}}

\* deep_hash of a streamed leaf that yields the data of the new item in these chunks.
HashStream(chunks) ==
    /\ Alive /\ Held
    /\ last.op = "new"
    /\ Let(deep_hash(StreamOf(chunks)), LAMBDA r :
           /\ last' = Last("deep_hash", r.res, <<>>, r.val)
           /\ msgs' = [msgs EXCEPT !.leaf = Msg(StreamOf(chunks), r.val)])
    /\ UNCHANGED <<clients, tx, buf, file, sent, hist>>

NextHash ==
    \/ \E target \in Targets, data \in HashPayloads, randoms \in Randoms :
          New(target, data, <<NameTag>>, randoms)
    \/ \E chunks \in Splits(tx.data.bytes) : HashStream(chunks)
    \/ \E signer \in HashSigners : Sign(signer)
    \/ Verify
    \/ AsBytes
    \/ \E n \in 1..MaxItems : WriteBundle(n)
    \/ \E size \in {0, Len(buf)}, checked \in BOOLEAN : FromFilePosition(size, checked)

SpecHash == Init /\ [][NextHash]_vars

----------------------------------------------------------------------------
(* as_bytes over the items of every shape *)

\* Items of every combination of signature type, signature, and kind of data, those
\* that only code of the item's own module can build included.
ItemsUnderTest ==
    {BundlrTx(signature_type, signature, owner, target, Randoms_one, tags, data) :
        signature_type \in {"None", "ED25519", "Ethereum"},
        signature \in {<<>>, EdSign(1, <<>>)},
        owner \in {<<>>, EdPub(1)},
        target \in Targets,
        tags \in {<<>>, <<NameTag>>},
        data \in {NoData, StreamData(0, 2)} \cup {BytesData(p) : p \in Payloads}}

InitItems ==
    /\ tx \in ItemsUnderTest
    /\ buf = <<>>
    /\ file = <<>>
    /\ last = Last("init", "Ok", <<>>, <<>>)
    /\ Idle
    /\ sent = NoSent
    /\ msgs = NoMsgs
    /\ hist = Hist(NoSigner, FALSE, "none", "given")

NextItems ==
    \/ AsBytes
    \/ FromBytes

SpecItems == InitItems /\ [][NextItems]_vars

----------------------------------------------------------------------------
(* The parsers over buffers made by hand *)

\* The field lengths a writer lays a buffer of signature type t out with: those of the
\* registry where it knows the type, those of ed25519 elsewhere.
LayoutOf(t) ==
    IF from_u16(t) # "Missing" THEN get_config(from_u16(t))
    ELSE Config(ED25519_SIGNATURE_LENGTH, ED25519_PUBLIC_KEY_LENGTH)

TargetStart(t) == 2 + LayoutOf(t).sig_length + LayoutOf(t).pub_length

AnchorStart(t, tp) == TargetStart(t) + 1 + (IF tp = 1 THEN 32 ELSE 0)

TagsStart(t, tp, ap) == AnchorStart(t, tp) + 1 + (IF ap = 1 THEN 32 ELSE 0)

\* The bytes of an item of signature type t with presence bytes tp and ap, the tag
\* count n over the tag bytes tb, and the data: a signed type-2 item carries the ed25519
\* signature of key 1 over its node, any other zero bytes for its signature.
CraftedBytes(t, tp, ap, n, tb, data, signed) ==
    Let(IF tp = 1 THEN Target32 ELSE <<>>, LAMBDA target :
    Let(IF ap = 1 THEN Randoms_one ELSE <<>>, LAMBDA anchor :
    Let(IF t = 2 THEN EdPub(1) ELSE Zeros(LayoutOf(t).pub_length), LAMBDA owner :
        ToLe(t, 2)
        \o (IF t = 2 /\ signed
            THEN EdSign(1, deep_hash_sync(message_node(to_string(t), owner, target, anchor,
                                                       tb, Chunk(data))).val)
            ELSE Zeros(LayoutOf(t).sig_length))
        \o owner
        \o <<B(tp)>> \o target
        \o <<B(ap)>> \o anchor
        \o ToLe(n, 8) \o ToLe(Len(tb), 8) \o tb \o data)))

\* Where a buffer is cut short (a buffer cut short is not signed): nowhere; before its first byte; inside the signature
\* and owner; inside the target; inside the anchor; inside the two counters; inside
\* the tag bytes.
CutPlaces == {"whole", "empty", "prefix", "target", "anchor", "counters", "tags"}

CutAt(t, tp, ap, tb, data, place) ==
    CASE place = "whole" -> TagsStart(t, tp, ap) + 16 + Len(tb) + Len(data)
      [] place = "empty" -> 0
      [] place = "prefix" -> 2 + LayoutOf(t).sig_length
      [] place = "target" -> TargetStart(t) + 17
      [] place = "anchor" -> AnchorStart(t, tp) + 17
      [] place = "counters" -> TagsStart(t, tp, ap) + 8
      [] place = "tags" -> TagsStart(t, tp, ap) + 16 + Len(tb) - 1

Crafted(t, tp, ap, n, tb, place) ==
    [sig_type |-> t, target_present |-> tp, anchor_present |-> ap, number_of_tags |-> n,
     tags_bytes |-> tb, place |-> place,
     length |-> CutAt(t, tp, ap, tb, Bytes(<<104, 105>>), place), made |-> TRUE]

CraftedBuffer(c) ==
    SubSeq(CraftedBytes(c.sig_type, c.target_present, c.anchor_present, c.number_of_tags,
                        c.tags_bytes, Bytes(<<104, 105>>), c.place = "whole"), 1, c.length)

\* Signature types: 0, registered ones, the discriminant of Cosmos, unlisted ones.
CraftedTypes == {0, 2, 3, 8, 9, 65535}

PresenceBytes == {0, 1, 2, 255}

\* (number_of_tags, tag bytes): one tag; no tag; a count over no bytes; bytes that hold
\* no tag under a count of zero; a count the bytes fall short of; bytes that do not
\* decode; the two other encodings of one tag.
TagBlocks ==
    {<<1, encode(<<NameTag>>)>>, <<0, <<>>>>, <<1, <<>>>>, <<0, <<B(0)>>>>,
     <<2, encode(<<NameTag>>)>>, <<1, Bytes(<<2, 255>>)>>,
     <<1, EncodedAs("sized")>>, <<1, EncodedAs("trailing")>>}

CraftedInputs ==
    {Crafted(t, 0, 1, 1, encode(<<NameTag>>), "whole") : t \in CraftedTypes}
    \cup {Crafted(t, tp, ap, 1, encode(<<NameTag>>), "whole") :
             t \in {2, 3}, tp \in PresenceBytes, ap \in PresenceBytes}
    \cup {Crafted(2, 0, 1, block[1], block[2], "whole") : block \in TagBlocks}
    \cup {Crafted(t, 1, 1, 1, encode(<<NameTag>>), place) : t \in {2, 3}, place \in CutPlaces}

InitParse ==
    /\ \E c \in CraftedInputs :
          /\ buf = CraftedBuffer(c)
          /\ hist = [Hist(NoSigner, FALSE, "none", "crafted") EXCEPT !.input = c]
    /\ tx = NoTx
    /\ file = <<>>
    /\ last = Last("init", "Ok", <<>>, <<>>)
    /\ Idle
    /\ sent = NoSent
    /\ msgs = NoMsgs

NextParse ==
    \/ FromBytes
    \/ \E n \in 1..MaxItems : WriteBundle(n)
    \/ \E size \in {0, Len(buf)}, checked \in BOOLEAN : FromFilePosition(size, checked)
    \/ \E checked \in BOOLEAN : VerifyFileBundle(checked)

SpecParse == InitParse /\ [][NextParse]_vars

----------------------------------------------------------------------------
(* Signing again, and signing while the file fails *)

\* The signers an item is signed again with.
SecondSigners == {s \in Signers : s.kind \in {"Ed25519Signer", "Secp256k1Signer", "CosmosSigner"}}

NextSign ==
    \/ \E target \in Targets, data \in Payloads, randoms \in Randoms :
          New(target, data, <<NameTag>>, randoms)
    \/ \E signer \in Signers : Sign(signer)
    \/ \E signer \in SecondSigners : SignAgain(signer)
    \/ AsBytes
    \/ WriteBundle(1)
    \/ FromFilePosition(Len(buf), TRUE)
    \/ BreakFile

SpecSign == Init /\ [][NextSign]_vars

----------------------------------------------------------------------------
(* The two deep hashes over chunk trees *)

TreeLeaves ==
    {Chunk(<<>>), Chunk(Bytes(<<104, 105>>)), StreamOf(<<>>), StreamOf(<<Bytes(<<104, 105>>)>>),
     StreamOf(<<Bytes(<<104>>), Bytes(<<105>>)>>)}

\* Trees of depth up to three: a leaf, a node of no or two leaves, a node of a leaf and a
\* node of two leaves.
Trees ==
    TreeLeaves
    \cup {Chunks(<<>>)}
    \cup {Chunks(<<a, b>>) : a \in TreeLeaves, b \in TreeLeaves}
    \cup {Chunks(<<a, Chunks(<<b, c>>)>>) : a \in TreeLeaves, b \in TreeLeaves, c \in TreeLeaves}

InitTrees ==
    /\ \E tree \in Trees : msgs = [NoMsgs EXCEPT !.leaf = Msg(tree, <<>>)]
    /\ tx = NoTx
    /\ buf = <<>>
    /\ file = <<>>
    /\ last = Last("init", "Ok", <<>>, <<>>)
    /\ Idle
    /\ sent = NoSent
    /\ hist = Hist(NoSigner, FALSE, "none", "tree")

\* deep_hash_sync(tree)
DeepHashSync ==
    /\ Alive
    /\ last.op # "deep_hash_sync"
    /\ Let(deep_hash_sync(msgs.leaf.node), LAMBDA r :
           last' = Last("deep_hash_sync", r.res, <<>>, r.val))
    /\ UNCHANGED <<clients, tx, buf, file, sent, msgs, hist>>

\* deep_hash(tree).await
DeepHash ==
    /\ Alive
    /\ last.op # "deep_hash"
    /\ Let(deep_hash(msgs.leaf.node), LAMBDA r :
           last' = Last("deep_hash", r.res, <<>>, r.val))
    /\ UNCHANGED <<clients, tx, buf, file, sent, msgs, hist>>

NextTrees ==
    \/ DeepHashSync
    \/ DeepHash

SpecTrees == InitTrees /\ [][NextTrees]_vars

----------------------------------------------------------------------------
(* Properties *)

\* C1: when from_bytes is given the bytes as_bytes returned for an item signed by a
\* supported signer, it succeeds, the item it returns has the signature type,
\* signature, owner, target, anchor, tags and data of the item serialised, and
\* serialising it again gives the same bytes.
C1_RoundTrip ==
    (/\ last.op = "from_bytes"
     /\ buf # <<>> /\ sent.bytes = buf
     /\ hist.signer.kind \in SupportedKinds)
    => /\ last.res = "Ok"
       /\ tx = sent.item
       /\ as_bytes(tx) = Result("Ok", buf)

\* C1 fails: the bytes as_bytes returned for an item signed by the Arweave signer, given
\* back to from_bytes, end in a panic.
C1_Fails ==
    /\ last.op = "from_bytes"
    /\ buf # <<>> /\ sent.bytes = buf
    /\ hist.signer.kind = "ArweaveSigner"
    /\ last.res = "Panic"

\* C2: verify() on an in-memory item returns Ok after sign(s) succeeded on it, for
\* every supported signer s.
C2_SignThenVerify ==
    (/\ last.op = "verify"
     /\ hist.origin = "new" /\ hist.tampered = "none"
     /\ hist.signer.kind \in SupportedKinds)
    => last.res = "Ok"

\* C2 fails: sign succeeded with the Arweave signer and verify() does not return Ok.
C2_Fails ==
    /\ last.op = "verify"
    /\ hist.origin = "new" /\ hist.tampered = "none"
    /\ hist.signer.kind = "ArweaveSigner"
    /\ tx.signature # <<>>
    /\ last.res # "Ok"

\* C3: verify() on an item that verified and then had one byte of its signature,
\* owner, target, anchor, tags or data changed returns the error InvalidSignature.
C3_TamperRejected ==
    (/\ last.op = "verify"
     /\ hist.tampered # "none"
     /\ hist.signer.kind \in SupportedKinds)
    => last.res = "InvalidSignature"

\* C3 fails: one byte of the signature of a verified ed25519 item was changed and
\* verify() panics.
C3_Fails ==
    /\ last.op = "verify"
    /\ hist.tampered = "signature"
    /\ hist.signer.kind = "Ed25519Signer"
    /\ last.res = "Panic"

\* The node of an item's message: eight children, the first two the leaves "dataitem"
\* and "1", the next five leaves, the last the data; m.message is its deep hash.
IsMessageNode(m) ==
    /\ m.node.kind = "Chunks"
    /\ Len(m.node.children) = 8
    /\ m.node.children[1] = Chunk(DATAITEM_AS_BUFFER)
    /\ m.node.children[2] = Chunk(ONE_AS_BUFFER)
    /\ \A i \in 3..7 : m.node.children[i].kind = "Chunk"
    /\ m.node.children[8].kind \in {"Chunk", "Stream"}
    /\ m.message = deep_hash(m.node).val

\* Two messages over the same seven leading leaves that are the same message.
SameMessage(m1, m2) ==
    /\ \A i \in 1..7 : m1.node.children[i] = m2.node.children[i]
    /\ m1.message = m2.message

\* C4: what sign(), verify() and verify_file_bundle hash for the item of one buffer is
\* the node of eight children in the stated order, and it is the same node and the
\* same message in all three.
C4_SameNode ==
    /\ \A m \in {msgs.sign, msgs.verify, msgs.bundle} : m # NoMsg => IsMessageNode(m)
    /\ (msgs.sign # NoMsg /\ msgs.verify # NoMsg) => SameMessage(msgs.sign, msgs.verify)
    /\ (msgs.sign # NoMsg /\ msgs.bundle # NoMsg) => SameMessage(msgs.sign, msgs.bundle)
    /\ (msgs.verify # NoMsg /\ msgs.bundle # NoMsg) => SameMessage(msgs.verify, msgs.bundle)

\* C4 fails: for the bytes of one received item, verify() hashed the tags encoded
\* again and verify_file_bundle the tag bytes as they are written, and the two
\* messages differ.
C4_Fails ==
    /\ hist.origin = "bytes" /\ hist.signer = NoSigner
    /\ msgs.verify # NoMsg /\ msgs.bundle # NoMsg
    /\ msgs.verify.node.children[7] # msgs.bundle.node.children[7]
    /\ msgs.verify.message # msgs.bundle.message

\* The bytes a streamed leaf yields, chunk after chunk.
PayloadOf(stream) == Concat([i \in 1..Len(stream.items) |-> stream.items[i].bytes])

\* C5: deep_hash of a streamed leaf is the hash of the in-memory leaf that holds the
\* bytes of all its chunks, however the bytes are split into chunks; and the message
\* of a file-window item whose stream yields the data of the in-memory item that was
\* signed is the message of that item.
C5_StreamedEqualsInMemory ==
    /\ msgs.leaf # NoMsg =>
          /\ msgs.leaf.message = deep_hash_sync(Chunk(PayloadOf(msgs.leaf.node))).val
    /\ last.op = "deep_hash" =>
          /\ last.res = "Ok" /\ last.out = msgs.leaf.message
          /\ PayloadOf(msgs.leaf.node) = tx.data.bytes
    /\ (last.op = "verify" /\ hist.origin = "file" /\ Alive) =>
          /\ msgs.sign.node.children[8].kind = "Chunk"
          /\ msgs.verify.node.children[8].kind = "Stream"
          /\ PayloadOf(msgs.verify.node.children[8]) = msgs.sign.node.children[8].bytes
                => SameMessage(msgs.sign, msgs.verify)

\* C5 happens: a stream of three chunks, one of them empty, has been hashed for a
\* payload that is not empty, and the file-window item of that payload verified.
C5_Witness ==
    /\ last.op = "verify" /\ hist.origin = "file" /\ last.res = "Ok"
    /\ msgs.verify.node.children[8].items # <<>>
    /\ Len(msgs.leaf.node.items) = 3
    /\ \E i \in 1..3 : msgs.leaf.node.items[i].bytes = <<>>
    /\ \E i \in 1..3 : \E j \in 1..3 :
          i # j /\ msgs.leaf.node.items[i].bytes # <<>> /\ msgs.leaf.node.items[j].bytes # <<>>

\* C6: as_bytes returns bytes only for a signed item with in-memory data; an unsigned
\* item gets NoSignature whatever its data, a signed item with a stream or no data
\* gets InvalidDataType, and an error comes with no bytes.
C6_AsBytesErrors ==
    last.op = "as_bytes" =>
       /\ (sent.item.signature = <<>> \/ sent.item.signature_type = "None")
             => last.res = "NoSignature"
       /\ (/\ sent.item.signature # <<>> /\ sent.item.signature_type # "None"
           /\ sent.item.data.kind \in {"Stream", "None"}) => last.res = "InvalidDataType"
       /\ last.res = "Ok" =>
             /\ sent.item.signature # <<>> /\ sent.item.signature_type # "None"
             /\ sent.item.data.kind = "Bytes"
             /\ last.out # <<>>
       /\ last.res # "Ok" => last.out = <<>> /\ sent.bytes = <<>> /\ buf = <<>>

\* C6 happens: as_bytes was called on an unsigned item whose data is a stream.
C6_Witness ==
    /\ last.op = "as_bytes" /\ last.res = "NoSignature"
    /\ sent.item.signature = <<>>
    /\ sent.item.data.kind = "Stream"

ParseOps == {"from_bytes", "from_file_position", "verify_file_bundle"}

\* The signature types of the table of supported cryptosystems.
RegisteredTags == 1..7

\* C7: a buffer that holds a signature type outside the registered tags is rejected
\* with InvalidSignerType by from_bytes, from_file_position and verify_file_bundle.
C7_UnknownType ==
    (/\ last.op \in ParseOps
     /\ hist.input.made /\ hist.input.length >= 2
     /\ hist.input.sig_type \notin RegisteredTags)
    => last.res = "InvalidSignerType"

\* C7 fails: from_bytes was given a whole buffer of signature type 0 and panicked.
C7_Fails ==
    /\ last.op = "from_bytes"
    /\ hist.input.made /\ hist.input.place = "whole"
    /\ hist.input.sig_type = 0
    /\ last.res = "Panic"

\* Whether the parser behind op has a layout for the signature type t.
KnownTo(op, t) ==
    IF op = "verify_file_bundle" THEN from_u16(t) # "Missing" ELSE SignerMap_from(t) # "None"

\* The target and the anchor the last parse read, where it got that far.
FieldsRead ==
    IF last.op = "verify_file_bundle"
    THEN [read |-> msgs.bundle # NoMsg,
          target |-> IF msgs.bundle # NoMsg THEN msgs.bundle.node.children[5].bytes ELSE <<>>,
          anchor |-> IF msgs.bundle # NoMsg THEN msgs.bundle.node.children[6].bytes ELSE <<>>]
    ELSE [read |-> last.res = "Ok", target |-> tx.target, anchor |-> tx.anchor]

\* C8: every parsing path rejects a target-presence or anchor-presence byte b other
\* than 0 and 1 with InvalidPresenceByte and the decimal text of b, and reads the 32
\* bytes after the presence byte as the field exactly when the byte is 1.
C8_PresenceBytes ==
    (last.op \in ParseOps /\ hist.input.made /\ KnownTo(last.op, hist.input.sig_type)) =>
       /\ (/\ hist.input.length > TargetStart(hist.input.sig_type)
           /\ hist.input.target_present \notin {0, 1})
          => /\ last.res = "InvalidPresenceByte"
             /\ last.detail = to_string(hist.input.target_present)
       /\ (/\ hist.input.length > AnchorStart(hist.input.sig_type, hist.input.target_present)
           /\ hist.input.target_present \in {0, 1}
           /\ hist.input.anchor_present \notin {0, 1})
          => /\ last.res = "InvalidPresenceByte"
             /\ last.detail = to_string(hist.input.anchor_present)
       /\ (/\ hist.input.place = "whole"
           /\ hist.input.target_present \in {0, 1}
           /\ hist.input.anchor_present \in {0, 1})
          => /\ last.res # "InvalidPresenceByte"
             /\ FieldsRead.read =>
                   /\ FieldsRead.target =
                         (IF hist.input.target_present = 1 THEN Target32 ELSE <<>>)
                   /\ FieldsRead.anchor =
                         (IF hist.input.anchor_present = 1 THEN Randoms_one ELSE <<>>)

\* C8 happens: verify_file_bundle read a target after a presence byte of 1 and
\* rejected the anchor-presence byte 255.
C8_Witness ==
    /\ last.op = "verify_file_bundle"
    /\ hist.input.made
    /\ hist.input.target_present = 1 /\ hist.input.anchor_present = 255
    /\ last.res = "InvalidPresenceByte" /\ last.detail = Bytes(<<50, 53, 53>>)

\* C9: a buffer whose two tag counters disagree (a count over no tag bytes, tag bytes
\* under a count of zero) or whose tag bytes hold another number of tags than the
\* count is rejected with InvalidTagEncoding by every parsing path.
C9_TagCounters ==
    (/\ last.op \in ParseOps
     /\ hist.input.made /\ hist.input.place = "whole"
     /\ KnownTo(last.op, hist.input.sig_type)
     /\ hist.input.target_present \in {0, 1} /\ hist.input.anchor_present \in {0, 1}
     /\ \/ hist.input.tags_bytes = <<>> /\ hist.input.number_of_tags > 0
        \/ hist.input.tags_bytes # <<>> /\ hist.input.number_of_tags = 0
        \/ Len(decode(hist.input.tags_bytes).tags) # hist.input.number_of_tags)
    => last.res = "InvalidTagEncoding"

\* C9 fails: from_bytes accepted a buffer with a tag count of zero over one tag byte.
C9_Fails ==
    /\ last.op = "from_bytes"
    /\ hist.input.made
    /\ hist.input.number_of_tags = 0 /\ hist.input.tags_bytes = <<B(0)>>
    /\ last.res = "Ok"

\* C10: from_bytes returns Ok or an error for every buffer: it never panics.
C10_NoPanic == last.op = "from_bytes" => last.res # "Panic"

\* C10 fails: from_bytes panicked on a buffer cut inside the target.
C10_Fails ==
    /\ last.op = "from_bytes"
    /\ hist.input.made /\ hist.input.place = "target"
    /\ last.res = "Panic"


\* Whether a chunk tree holds a streamed leaf, at the root or below it.
RECURSIVE HasStream(_)
HasStream(node) ==
    \/ node.kind = "Stream"
    \/ \E i \in 1..Len(node.children) : HasStream(node.children[i])

\* C11: deep_hash_sync of a chunk tree that holds a streamed leaf, at the root or
\* nested in a node, returns the error Unsupported and does not panic.
C11_SyncRejectsStream ==
    (last.op = "deep_hash_sync" /\ HasStream(msgs.leaf.node)) => last.res = "Unsupported"

\* C11 fails: deep_hash_sync panicked on a node whose second child is a stream.
C11_Fails ==
    /\ last.op = "deep_hash_sync"
    /\ msgs.leaf.node.kind = "Chunks"
    /\ Len(msgs.leaf.node.children) = 2
    /\ msgs.leaf.node.children[1].kind = "Chunk"
    /\ msgs.leaf.node.children[2].kind = "Stream"
    /\ last.res = "Panic"


\* C12: a sign() call that returns an error leaves the signature type, the owner and
\* the signature of the item as they were before the call.
C12_FailedSignKeeps ==
    (last.op = "sign" /\ last.res # "Ok" /\ Alive) =>
       /\ tx.signature_type = hist.before.signature_type
       /\ tx.owner = hist.before.owner
       /\ tx.signature = hist.before.signature

\* C12 fails: sign with a secp256k1 signer on a file-window item signed with ed25519
\* returned NoBytesLeft and left the new type and owner next to the old signature.
C12_Fails ==
    /\ last.op = "sign" /\ last.res = "NoBytesLeft"
    /\ hist.before.signature_type = "ED25519"
    /\ tx.signature_type = "Ethereum"
    /\ tx.owner # hist.before.owner
    /\ tx.signature = hist.before.signature /\ tx.signature # <<>>

\* C13: after a successful sign(s) the signature type is s.sig_type(), the owner is
\* s.pub_key(), the signature is s.sign of the message of the node built with these
\* values, also on an item signed before; target, anchor, tags and in-memory data are
\* as they were.
C13_SignSets ==
    (last.op = "sign" /\ last.res = "Ok") =>
       /\ tx.signature_type = sig_type(hist.signer)
       /\ tx.owner = pub_key(hist.signer).val
       /\ IsMessageNode(msgs.sign)
       /\ msgs.sign.node.children[3] = Chunk(to_string(as_u16(tx.signature_type)))
       /\ msgs.sign.node.children[4] = Chunk(tx.owner)
       /\ msgs.sign.node.children[5] = Chunk(tx.target)
       /\ msgs.sign.node.children[6] = Chunk(tx.anchor)
       /\ msgs.sign.node.children[7] = Chunk(encoded_tags_of(tx.tags))
       /\ tx.signature = sign(hist.signer, msgs.sign.message).val
       /\ tx.target = hist.before.target
       /\ tx.anchor = hist.before.anchor
       /\ tx.tags = hist.before.tags
       /\ hist.before.data.kind = "Bytes" =>
             /\ tx.data = hist.before.data
             /\ msgs.sign.node.children[8] = Chunk(tx.data.bytes)

\* C13 happens: an in-memory item signed by one signer was signed again by a signer of
\* another type.
C13_Witness ==
    /\ last.op = "sign" /\ last.res = "Ok"
    /\ is_signed(hist.before)
    /\ hist.before.signature_type # tx.signature_type
    /\ hist.before.owner # tx.owner
    /\ hist.before.data.kind = "Bytes"


\* The variants the registered tags stand for.
RegisteredVariants == {SignerMap_from(t) : t \in RegisteredTags}

\* C14: every item that is_signed() has a registered signature type, a signature of
\* exactly the registry's sig_length for it and an owner of exactly its pub_length.
C14_SignedLengths ==
    (Held /\ is_signed(tx)) =>
       /\ tx.signature_type \in RegisteredVariants
       /\ Len(tx.signature) = get_config(tx.signature_type).sig_length
       /\ Len(tx.owner) = get_config(tx.signature_type).pub_length

\* C14 fails: a new item signed by the Arweave signer is_signed() with a signature of
\* the length of the message and an owner of the length of the PEM text.
C14_Fails ==
    /\ Held /\ is_signed(tx)
    /\ last.op = "sign" /\ last.res = "Ok"
    /\ tx.signature_type = "Arweave"
    /\ Len(tx.signature) = SHA384_LEN
    /\ Len(tx.owner) = PEM_LENGTH


-----------------------------------------------------------------------------
(* Items made with any target argument *)

\* The target arguments of BundlrTx::new: none, one of five bytes, one of 32 bytes.
ShortTarget == Bytes(<<7, 7, 7, 7, 7>>)

AnyTargets == {<<>>, ShortTarget, Target32}

CurveSigners == {s \in Signers : s.kind \in {"Ed25519Signer", "Secp256k1Signer"}}

NextTargets ==
    \/ \E target \in AnyTargets, data \in Payloads, tags \in {<<>>, <<NameTag>>},
          randoms \in Randoms : New(target, data, tags, randoms)
    \/ \E signer \in CurveSigners : Sign(signer)
    \/ AsBytes
    \/ FromBytes
    \/ WriteBundle(1)
    \/ \E checked \in BOOLEAN : FromFilePosition(Len(buf), checked)

SpecTargets == Init /\ [][NextTargets]_vars

\* Where as_bytes writes the presence byte of the target of the item it was given.
TargetPresenceAt(item) == 2 + Len(item.signature) + Len(item.owner) + 1

AnchorPresenceAt(item) == TargetPresenceAt(item) + Len(item.target) + 1

\* C15: every item held (made by new with any target, by from_bytes or by
\* from_file_position) has a target of 0 or 32 bytes and an anchor of 0 or 32 bytes,
\* and whenever as_bytes writes a presence byte 1 the field it writes after it is
\* exactly 32 bytes long.
C15_TargetAnchorLengths ==
    /\ Held => Len(tx.target) \in {0, 32} /\ Len(tx.anchor) \in {0, 32}
    /\ (last.op = "as_bytes" /\ last.res = "Ok") =>
          /\ last.out[TargetPresenceAt(sent.item)] = B(1) => Len(sent.item.target) = 32
          /\ last.out[AnchorPresenceAt(sent.item)] = B(1) => Len(sent.item.anchor) = 32

\* C15 fails: as_bytes has written the presence byte 1, the five bytes of the target
\* the item was made with, and the presence byte of the anchor right after them.
C15_Fails ==
    /\ last.op = "as_bytes" /\ last.res = "Ok"
    /\ hist.origin = "new"
    /\ sent.item.target = ShortTarget
    /\ last.out[TargetPresenceAt(sent.item)] = B(1)
    /\ SubSeq(last.out, TargetPresenceAt(sent.item) + 1, TargetPresenceAt(sent.item) + 5)
          = ShortTarget
    /\ last.out[TargetPresenceAt(sent.item) + 6] = B(1)


-----------------------------------------------------------------------------
(* The signer implementations against the registry *)

\* Signer::get_sig_length of each implementation (its SIG_LENGTH).
get_sig_length(s) ==
    CASE s.kind = "ArweaveSigner" -> 512
      [] s.kind = "Ed25519Signer" -> ED25519_SIGNATURE_LENGTH
      [] s.kind = "Secp256k1Signer" -> COMPACT_SIGNATURE_SIZE + 1
      [] s.kind = "AptosSigner" -> ED25519_SIGNATURE_LENGTH
      [] s.kind = "MultiAptosSigner" -> ED25519_SIGNATURE_LENGTH * 32 + 4
      [] s.kind = "TypedEthereumSigner" -> COMPACT_SIGNATURE_SIZE + 1
      [] s.kind = "CosmosSigner" -> COMPACT_SIGNATURE_SIZE

\* Signer::get_pub_length of each implementation (its PUB_LENGTH).
get_pub_length(s) ==
    CASE s.kind = "ArweaveSigner" -> 512
      [] s.kind = "Ed25519Signer" -> ED25519_PUBLIC_KEY_LENGTH
      [] s.kind = "Secp256k1Signer" -> UNCOMPRESSED_PUBLIC_KEY_SIZE
      [] s.kind = "AptosSigner" -> ED25519_PUBLIC_KEY_LENGTH
      [] s.kind = "MultiAptosSigner" -> ED25519_PUBLIC_KEY_LENGTH * 32 + 1
      [] s.kind = "TypedEthereumSigner" -> 42
      [] s.kind = "CosmosSigner" -> PUBLIC_KEY_SIZE

\* The messages handed to Signer::sign: empty, short, of the length of a deep hash.
SignerMessages == {<<>>, Bytes(<<104>>), Bytes(<<104, 105>>), Zeros(SHA384_LEN)}

InitSigners ==
    /\ tx = NoTx
    /\ buf = <<>>
    /\ file = <<>>
    /\ last = Last("init", "Ok", <<>>, <<>>)
    /\ Idle
    /\ sent = NoSent
    /\ \E message \in SignerMessages : msgs = [NoMsgs EXCEPT !.sign = Msg(NoNode, message)]
    /\ \E signer \in Signers : hist = Hist(signer, FALSE, "none", "signer")

\* signer.sig_type()
SigType ==
    /\ Alive /\ last.op # "sig_type"
    /\ last' = Last("sig_type", "Ok", <<>>, sig_type(hist.signer))
    /\ UNCHANGED <<clients, tx, buf, file, sent, msgs, hist>>

\* signer.get_sig_length()
GetSigLength ==
    /\ Alive /\ last.op # "get_sig_length"
    /\ last' = Last("get_sig_length", "Ok", <<>>, get_sig_length(hist.signer))
    /\ UNCHANGED <<clients, tx, buf, file, sent, msgs, hist>>

\* signer.get_pub_length()
GetPubLength ==
    /\ Alive /\ last.op # "get_pub_length"
    /\ last' = Last("get_pub_length", "Ok", <<>>, get_pub_length(hist.signer))
    /\ UNCHANGED <<clients, tx, buf, file, sent, msgs, hist>>

\* signer.sign(message)
SignMessage ==
    /\ Alive /\ last.op # "signer_sign"
    /\ Let(sign(hist.signer, msgs.sign.message), LAMBDA r :
           last' = Last("signer_sign", r.res, <<>>, r.val))
    /\ UNCHANGED <<clients, tx, buf, file, sent, msgs, hist>>

\* signer.pub_key()
PubKey ==
    /\ Alive /\ last.op # "pub_key"
    /\ Let(pub_key(hist.signer), LAMBDA r : last' = Last("pub_key", r.res, <<>>, r.val))
    /\ UNCHANGED <<clients, tx, buf, file, sent, msgs, hist>>

NextSigners ==
    \/ SigType
    \/ GetSigLength
    \/ GetPubLength
    \/ SignMessage
    \/ PubKey

SpecSigners == InitSigners /\ [][NextSigners]_vars

\* The variant of the signer table that an implementation's scheme has; the Cosmos
\* scheme has no tag in the table.
SchemeOf(s) ==
    CASE s.kind = "ArweaveSigner" -> "Arweave"
      [] s.kind = "Ed25519Signer" -> "ED25519"
      [] s.kind = "Secp256k1Signer" -> "Ethereum"
      [] s.kind = "AptosSigner" -> "InjectedAptos"
      [] s.kind = "MultiAptosSigner" -> "MultiAptos"
      [] s.kind = "TypedEthereumSigner" -> "TypedEthereum"
      [] s.kind = "CosmosSigner" -> "Cosmos"

\* C16: for every signer implementation sig_type() is the tag of its scheme in the
\* signer table, get_sig_length() and get_pub_length() are the registry's lengths for
\* that tag, and what sign() and pub_key() return has exactly those lengths.
C16_SignerMatchesRegistry ==
    /\ last.op = "sig_type" =>
          last.out = SchemeOf(hist.signer) /\ last.out \in RegisteredVariants
    /\ last.op = "get_sig_length" => last.out = get_config(SchemeOf(hist.signer)).sig_length
    /\ last.op = "get_pub_length" => last.out = get_config(SchemeOf(hist.signer)).pub_length
    /\ (last.op = "signer_sign" /\ last.res = "Ok") =>
          Len(last.out) = get_config(SchemeOf(hist.signer)).sig_length
    /\ (last.op = "pub_key" /\ last.res = "Ok") =>
          Len(last.out) = get_config(SchemeOf(hist.signer)).pub_length

\* C16 fails: the public key the MultiAptos signer returns is one ed25519 key, not the
\* string of the registry's length for MultiAptos.
C16_Fails ==
    /\ last.op = "pub_key" /\ last.res = "Ok"
    /\ hist.signer.kind = "MultiAptosSigner"
    /\ Len(last.out) = ED25519_PUBLIC_KEY_LENGTH
    /\ get_pub_length(hist.signer) = get_config("MultiAptos").pub_length
    /\ get_pub_length(hist.signer) # Len(last.out)


-----------------------------------------------------------------------------
(* The multi-signature verifier over keys, signatures and bitmaps made by hand *)

\* The slots a bitmap may include: the first two and the last.
MultiSlots == {0, 1, 31}

\* The 32 keys of the owner, all the key 1, and the threshold byte after them.
MultiOwner ==
    [i \in 1..(ED25519_PUBLIC_KEY_LENGTH * 32) |->
        EdPub(1)[((i - 1) % ED25519_PUBLIC_KEY_LENGTH) + 1]] \o <<B(1)>>

\* The bitmap with the bits of `included` set, most significant bit of byte 0 first.
RECURSIVE BitmapByte(_, _, _)
BitmapByte(included, bucket, bucket_pos) ==
    IF bucket_pos = 8 THEN 0
    ELSE (IF bucket * 8 + bucket_pos \in included THEN Pow2(7 - bucket_pos) ELSE 0)
         + BitmapByte(included, bucket, bucket_pos + 1)

BitmapOf(included) == [b \in 1..4 |-> B(BitmapByte(included, b - 1, 0))]

\* The signature field: in each slot of `good` the signature of key 1 on the message,
\* in each other slot of MultiSlots that of another key, zeros elsewhere; the bitmap.
MultiSignature(message, good, included) ==
    [i \in 1..(ED25519_SIGNATURE_LENGTH * 32) |->
        LET slot == (i - 1) \div ED25519_SIGNATURE_LENGTH
            pos == ((i - 1) % ED25519_SIGNATURE_LENGTH) + 1
        IN IF slot \in good THEN EdSign(1, message)[pos]
           ELSE IF slot \in MultiSlots THEN EdSign(2, message)[pos]
           ELSE B(0)]
    \o BitmapOf(included)

InitMulti ==
    /\ \E message \in {<<>>, Bytes(<<104, 105>>)}, good \in SUBSET MultiSlots,
          included \in SUBSET MultiSlots :
          /\ tx = BundlrTx("MultiAptos", MultiSignature(message, good, included), MultiOwner,
                           <<>>, <<>>, <<>>, NoData)
          /\ msgs = [NoMsgs EXCEPT !.verify = Msg(NoNode, message)]
    /\ buf = <<>>
    /\ file = <<>>
    /\ last = Last("init", "Ok", <<>>, <<>>)
    /\ Idle
    /\ sent = NoSent
    /\ hist = Hist(NoSigner, FALSE, "none", "given")

\* MultiAptosSigner::verify(pk, message, signature)
MultiVerify ==
    /\ Alive /\ last.op = "init"
    /\ last' = Last("multi_verify",
                    MultiAptosSigner_verify(tx.owner, msgs.verify.message, tx.signature),
                    <<>>, <<>>)
    /\ UNCHANGED <<clients, tx, buf, file, sent, msgs, hist>>

NextMulti == MultiVerify

SpecMulti == InitMulti /\ [][NextMulti]_vars

\* The slots whose bit is set in the bitmap of the signature of tx, and those of them
\* whose signature is not one of the slot's key on the message.
IncludedSlots ==
    {i \in 0..31 : sig_included(SubSeq(tx.signature, ED25519_SIGNATURE_LENGTH * 32 + 1,
                                       ED25519_SIGNATURE_LENGTH * 32 + 4), i)}

FailingSlots ==
    {i \in IncludedSlots :
        ~EdVerify(SubSeq(tx.owner, i * ED25519_PUBLIC_KEY_LENGTH + 1,
                         (i + 1) * ED25519_PUBLIC_KEY_LENGTH),
                  msgs.verify.message,
                  SubSeq(tx.signature, i * ED25519_SIGNATURE_LENGTH + 1,
                         (i + 1) * ED25519_SIGNATURE_LENGTH))}

\* C17: MultiAptosSigner::verify returns InvalidSignature when the signature of at
\* least one slot whose bit is set does not verify against the key of that slot, and
\* returns Ok only when every included signature verifies.
C17_MultiRejects ==
    last.op = "multi_verify" =>
       /\ FailingSlots # {} => last.res = "InvalidSignature"
       /\ last.res = "Ok" => FailingSlots = {}

\* C17 fails: verify returned Ok on a signature whose included slots all fail.
C17_Fails ==
    /\ last.op = "multi_verify" /\ last.res = "Ok"
    /\ IncludedSlots = MultiSlots
    /\ FailingSlots = MultiSlots


-----------------------------------------------------------------------------
(* Bundles of items that differ *)

\* The bytes of an item with the signature field replaced.
WithSignature(bytes, sig) ==
    SubSeq(bytes, 1, 2) \o sig \o SubSeq(bytes, 2 + Len(sig) + 1, Len(bytes))

\* The bytes of an item with the byte at position `at` (from 0) replaced.
WithByte(bytes, at, b) == [bytes EXCEPT ![at + 1] = B(b)]

\* Items that verify: made elsewhere with key 1, over each payload and tag encoding.
SoundItems == {ExternalItem(1, form, data) : form \in {"counted", "sized"}, data \in Payloads}

\* Items that do not: a well-formed signature of another key; a signature that is not
\* a well-formed ed25519 signature; a target presence byte of 2; a signature type
\* that no variant has.
ForgedItem == WithSignature(ExternalItem(1, "counted", <<>>), EdSign(2, <<>>))

MalformedItem ==
    WithSignature(ExternalItem(1, "counted", <<>>),
                  Zeros(ED25519_SIGNATURE_LENGTH - 1) \o <<B(255)>>)

BadPresenceItem ==
    WithByte(ExternalItem(1, "counted", <<>>),
             2 + ED25519_SIGNATURE_LENGTH + ED25519_PUBLIC_KEY_LENGTH, 2)

UnknownTypeItem == WithByte(ExternalItem(1, "counted", <<>>), 0, 9)

UnsoundItems == {ForgedItem, MalformedItem, BadPresenceItem, UnknownTypeItem}

MixedBundles ==
    UNION {[1..n -> SoundItems \cup UnsoundItems] : n \in 1..MaxItems}

\* The bundle file of the given items: the count, the (size, id) headers, the items.
MixedBundleOf(items) ==
    ToLe(Len(items), 32)
    \o Concat([i \in 1..Len(items) |-> ToLe(Len(items[i]), 32) \o ItemId(i)])
    \o Concat(items)

WriteMixed(items) ==
    /\ Alive
    /\ file = <<>>
    /\ file' = MixedBundleOf(items)
    /\ buf' = items[1]
    /\ last' = Last("write", "Ok", <<>>, <<>>)
    /\ UNCHANGED <<clients, tx, sent, msgs, hist>>

NextMixed ==
    \/ \E items \in MixedBundles : WriteMixed(items)
    \/ \E checked \in BOOLEAN : VerifyFileBundle(checked)

SpecMixed == Init /\ [][NextMixed]_vars

\* The file as a bundle: its header count, the size in header i, where item i starts,
\* and what one turn of the loop comes to on item i taken alone.
HeaderCount == FromLe(SubSeq(file, 1, 8))

HeaderSize(i) == FromLe(SubSeq(file, 32 + 64 * (i - 1) + 1, 32 + 64 * (i - 1) + 8))

RECURSIVE ItemOffset(_)
ItemOffset(i) ==
    IF i = 1 THEN 32 + 64 * HeaderCount ELSE ItemOffset(i - 1) + HeaderSize(i - 1)

ItemVerdict(i) == verify_item(file, ItemOffset(i), HeaderSize(i), <<>>, TRUE).res

FailingItems == {i \in 1..HeaderCount : ItemVerdict(i) # "Ok"}

FirstFailing == CHOOSE i \in FailingItems : \A j \in FailingItems : i <= j

\* C18: when an item of the bundle fails, verify_file_bundle returns the failure of the
\* first such item as an error value, returns no list of items, and has begun no turn
\* of its loop for any later item.
C18_StopsAtFirstFailure ==
    (last.op = "verify_file_bundle" /\ FailingItems # {}) =>
       /\ last.res = ItemVerdict(FirstFailing)
       /\ last.res \notin {"Ok", "Panic", "Unbounded"}
       /\ last.out = <<>>
       /\ hist.turns = FirstFailing

\* C18 fails: the second item of the bundle has a signature that is not a well-formed
\* ed25519 signature, and verify_file_bundle panicked on it.
C18_Fails ==
    /\ last.op = "verify_file_bundle" /\ last.res = "Panic"
    /\ HeaderCount = 2 /\ FailingItems = {2}
    /\ SubSeq(file, ItemOffset(2) + 1, ItemOffset(2) + HeaderSize(2)) = MalformedItem
    /\ hist.turns = 2


\* The bytes of item i of the file, the id in header i, and the signature of item i
\* (the items of these bundles have ed25519 signatures).
ItemBytes(i) == SubSeq(file, ItemOffset(i) + 1, ItemOffset(i) + HeaderSize(i))

HeaderId(i) == Slice(file, 32 + 64 * (i - 1) + 32, 32 + 64 * i)

ItemSignature(i) == Slice(ItemBytes(i), 2, 2 + ED25519_SIGNATURE_LENGTH)

\* C19: when verify_file_bundle succeeds on a bundle of N headers it returns N entries
\* in header order, entry i with the id of header i and the signature of item i, and
\* every one of the N items passes signature verification.
C19_AllVerifiedInOrder ==
    (last.op = "verify_file_bundle" /\ last.res = "Ok") =>
       /\ Len(last.out) = HeaderCount
       /\ \A i \in 1..HeaderCount :
             /\ last.out[i].tx_id = Base64Url(HeaderId(i))
             /\ last.out[i].signature = ItemSignature(i)
             /\ ItemVerdict(i) = "Ok"
             /\ ItemBytes(i) \in SoundItems

\* verify_file_bundle succeeded on a bundle of two items that differ.
C19_Witness ==
    /\ last.op = "verify_file_bundle" /\ last.res = "Ok"
    /\ HeaderCount = 2 /\ Len(last.out) = 2
    /\ ItemBytes(1) # ItemBytes(2)
    /\ last.out[1].signature # last.out[2].signature
    /\ last.out[1].tx_id # last.out[2].tx_id


-----------------------------------------------------------------------------
(* Files that end before the end of an item *)

\* How many bytes a file may lose at its end; the payloads are no shorter.
MaxCut == 2

CutPayloads == {Bytes(<<104, 105>>), Bytes(<<104, 105, 106>>)}

\* The bundle file of one item loses its last `cut` bytes, all of them data.
Truncate(cut) ==
    /\ Alive /\ last.op = "write"
    /\ Len(file) = 32 + 64 + Len(buf)
    /\ cut \in 1..MaxCut /\ cut <= Len(sent.item.data.bytes)
    /\ file' = SubSeq(file, 1, Len(file) - cut)
    /\ UNCHANGED <<clients, tx, buf, last, sent, msgs, hist>>

NextCut ==
    \/ \E target \in Targets, data \in CutPayloads, randoms \in Randoms :
          New(target, data, <<NameTag>>, randoms)
    \/ \E signer \in CurveSigners : Sign(signer)
    \/ AsBytes
    \/ WriteBundle(1)
    \/ \E cut \in 1..MaxCut : Truncate(cut)
    \/ FromFilePosition(Len(buf), TRUE)
    \/ Verify
    \/ VerifyFileBundle(TRUE)

SpecCut == Init /\ [][NextCut]_vars

\* The window of the data of the file-window item tx ends past the end of the file.
WindowPastEnd ==
    /\ Held /\ tx.data.kind = "Stream"
    /\ tx.data.start + tx.data.size > Len(file)

\* C20: when the file ends before the end of the window of an item, verifying the
\* file-window item (which hashes it) and verifying the bundle fail with NoBytesLeft,
\* and the stream has fed the hash no more bytes than the file holds from the start
\* of the window on.
C20_TruncatedFails ==
    /\ (last.op = "verify" /\ WindowPastEnd) =>
          /\ last.res = "NoBytesLeft"
          /\ Len(PayloadOf(msgs.verify.node.children[8])) <= Len(file) - tx.data.start
    /\ (last.op = "verify_file_bundle" /\ ItemOffset(1) + HeaderSize(1) > Len(file)) =>
          /\ last.res = "NoBytesLeft"
          /\ Len(PayloadOf(msgs.bundle.node.children[8]))
                <= Len(file) - (ItemOffset(1) + HeaderSize(1) - Len(buf))

\* C20 fails: verify() on a file-window item whose file lost its last byte hashed a
\* payload as long as the window, with a zero byte where the file has none, and
\* answered InvalidSignature.
C20_Fails ==
    /\ last.op = "verify" /\ WindowPastEnd
    /\ last.res = "InvalidSignature"
    /\ Len(PayloadOf(msgs.verify.node.children[8])) = tx.data.size
    /\ tx.data.start + tx.data.size = Len(file) + 1
    /\ PayloadOf(msgs.verify.node.children[8])[tx.data.size] = B(0)


-----------------------------------------------------------------------------
(* verify() called again *)

\* C21: verify() called again on the item it was just called on returns the same
\* result, for in-memory and for file-window items, and changes no field of the item.
C21_VerifyRepeats ==
    [][(last.op = "verify" /\ last'.op = "verify") =>
          /\ last'.res = last.res
          /\ tx'.signature_type = tx.signature_type
          /\ tx'.signature = tx.signature
          /\ tx'.owner = tx.owner
          /\ tx'.target = tx.target
          /\ tx'.anchor = tx.anchor
          /\ tx'.tags = tx.tags
          /\ tx'.data.kind = tx.data.kind]_vars

\* C21 fails: verify() on a file-window item whose window holds the data that was
\* signed has hashed a stream that yields nothing, the stream having been polled to
\* its end by the call before, and answered InvalidSignature.
C21_Fails ==
    /\ last.op = "verify" /\ last.res = "InvalidSignature"
    /\ hist.origin = "file" /\ Held
    /\ tx.data.kind = "Stream" /\ tx.data.size > 0
    /\ SubSeq(file, tx.data.start + 1, tx.data.start + tx.data.size)
          = msgs.sign.node.children[8].bytes
    /\ tx.signature = sign(hist.signer, msgs.sign.message).val
    /\ PayloadOf(msgs.verify.node.children[8]) = <<>>


-----------------------------------------------------------------------------
(* One serialised form *)

\* C22: for every byte string that from_bytes accepts, as_bytes of the item it returns
\* gives that byte string back, byte for byte.
C22_Canonical ==
    (last.op = "from_bytes" /\ last.res = "Ok") => as_bytes(tx) = Result("Ok", buf)

\* C22 fails: from_bytes accepted the bytes of a received item whose one tag is
\* written in another encoding of the same list, and as_bytes of the item it returned
\* gives fewer bytes, with another count of tag bytes.
C22_Fails ==
    /\ last.op = "from_bytes" /\ last.res = "Ok"
    /\ msgs = NoMsgs /\ hist.signer = NoSigner
    /\ tx.tags = <<NameTag>>
    /\ as_bytes(tx).res = "Ok"
    /\ Len(as_bytes(tx).val) < Len(buf)
    /\ SubSeq(as_bytes(tx).val, 1, TagsStart(2, 0, 1) + 8) = SubSeq(buf, 1, TagsStart(2, 0, 1) + 8)
    /\ SubSeq(as_bytes(tx).val, TagsStart(2, 0, 1) + 9, TagsStart(2, 0, 1) + 16)
          # SubSeq(buf, TagsStart(2, 0, 1) + 9, TagsStart(2, 0, 1) + 16)


-----------------------------------------------------------------------------
(* Items that differ in one field and their messages *)

\* The tags in the opposite order.
Reversed(tags) == [i \in 1..Len(tags) |-> tags[Len(tags) + 1 - i]]

\* What get_message returns for an item over the file of the session.
MessageOf(item) == get_message(item, file).val

\* The message of a signed item differs from that of the item with the same fields
\* and its tags in the opposite order.
TagOrderSeparates ==
    Reversed(tx.tags) # tx.tags => MessageOf([tx EXCEPT !.tags = Reversed(tx.tags)]) # MessageOf(tx)

-----------------------------------------------------------------------------
(* Where the bundle verifier reads *)

\* Where the data of item i starts within the item: after the tag bytes that its
\* counter declares, a counter past the end of the file being read as zero (the items
\* of these bundles are ed25519 items with no target and an anchor).
DataStartOf(i) ==
    TagsStart(2, 0, 1) + 16
    + FromLe(read_offset(file, ItemOffset(i) + TagsStart(2, 0, 1) + 8, 8))

\* The reads that the data stream of turn i made.
ReadsOf(i) == hist.given[i].reads

\* C24: verify_file_bundle reads item i at offset 32 + 64 N + size_1 + ... + size_(i-1);
\* every chunk of the data stream of item i lies within the window from the data start
\* of item i to the end of item i; and every chunk of an earlier item ends at or
\* before the start of every chunk of a later one.
C24_Windows ==
    last.op = "verify_file_bundle" =>
       /\ \A i \in 1..Len(hist.given) :
             /\ hist.given[i].offset = ItemOffset(i)
             /\ \A k \in 1..Len(ReadsOf(i)) :
                   /\ ReadsOf(i)[k].at >= ItemOffset(i) + DataStartOf(i)
                   /\ ReadsOf(i)[k].at + ReadsOf(i)[k].len <= ItemOffset(i) + HeaderSize(i)
       /\ \A i, j \in 1..Len(hist.given) : \A k \in 1..Len(ReadsOf(i)), l \in 1..Len(ReadsOf(j)) :
             i < j => ReadsOf(i)[k].at + ReadsOf(i)[k].len <= ReadsOf(j)[l].at

\* An item cut off inside its anchor: the size its header declares is smaller than the
\* prefix that is parsed for it.
CutItem == SubSeq(ExternalItem(1, "counted", <<>>), 1, 100)

\* The bundles of SpecMixed and those that end in the cut item.
WindowBundles ==
    MixedBundles \cup {<<CutItem>>} \cup {<<s, CutItem>> : s \in SoundItems}

NextWindows ==
    \/ \E items \in WindowBundles : WriteMixed(items)
    \/ \E checked \in BOOLEAN : VerifyFileBundle(checked)

SpecWindows == Init /\ [][NextWindows]_vars

\* C24 fails: the header of the second item declares fewer bytes than its prefix, and
\* the data stream of the item read a chunk that starts past the end of the item.
C24_Fails ==
    /\ last.op = "verify_file_bundle" /\ last.res = "Unbounded"
    /\ Len(hist.given) = 2
    /\ hist.given[2].offset = ItemOffset(2)
    /\ HeaderSize(2) < DataStartOf(2)
    /\ Len(ReadsOf(2)) = 1
    /\ ReadsOf(2)[1].at >= ItemOffset(2) + HeaderSize(2)
    /\ ReadsOf(2)[1].len = CHUNK_SIZE


-----------------------------------------------------------------------------
(* The chunks of a file-window stream *)

\* The sizes from_file_position is called with: nothing, the bytes of the item, and so
\* many more that the stream takes MaxChunks chunks (read_offset fills what the file
\* does not hold with zeros).
DeclaredSizes == {0, Len(buf), Len(buf) + (MaxChunks - 1) * CHUNK_SIZE}

NextChunks ==
    \/ \E target \in Targets, data \in Payloads \cup CutPayloads, randoms \in Randoms :
          New(target, data, <<NameTag>>, randoms)
    \/ \E signer \in CurveSigners : Sign(signer)
    \/ AsBytes
    \/ WriteBundle(1)
    \/ \E size \in DeclaredSizes, checked \in BOOLEAN : FromFilePosition(size, checked)

SpecChunks == Init /\ [][NextChunks]_vars

\* The chunks the stream of the item held yields when it is polled to its end.
Yielded == stream_items(tx.data, file)

RECURSIVE YieldedBefore(_)
YieldedBefore(k) == IF k = 1 THEN 0 ELSE YieldedBefore(k - 1) + Len(Yielded[k - 1].bytes)

\* C25: the stream of an item made by from_file_position(size, offset) whose prefix ends
\* at data_start is built for size - data_start bytes; every chunk it yields has at
\* most CHUNK_SIZE bytes and was read at offset + data_start plus the bytes yielded
\* before it; the lengths sum to size - data_start; and no chunk is yielded when the
\* data is empty.
C25_Chunks ==
    (last.op = "from_file_position" /\ last.res = "Ok") =>
       /\ tx.data.kind = "Stream"
       /\ tx.data.size = hist.window.size - hist.window.data_start
       /\ tx.data.size < Pow2(30) =>
             /\ \A k \in 1..Len(Yielded) :
                   /\ Yielded[k].ok
                   /\ Len(Yielded[k].bytes) <= CHUNK_SIZE
                   /\ Yielded[k].at = hist.window.offset + hist.window.data_start
                                        + YieldedBefore(k)
             /\ YieldedBefore(Len(Yielded) + 1) = hist.window.size - hist.window.data_start
             /\ hist.window.size = hist.window.data_start => Yielded = <<>>

\* C25 fails: the declared size is smaller than the prefix, and the stream made for
\* the item is built for a length that is not size - data_start and that no file holds.
C25_Fails ==
    /\ last.op = "from_file_position" /\ last.res = "Ok"
    /\ hist.window.size < hist.window.data_start
    /\ tx.data.kind = "Stream"
    /\ tx.data.start = hist.window.offset + hist.window.data_start
    /\ tx.data.size > Len(file)


-----------------------------------------------------------------------------
(* File-window streams on handles that share one cursor *)

\* File::seek(SeekFrom::Start(offset)) on a handle whose cursor is at `cursor`: the
\* cursor after.
File_seek(cursor, offset) == offset

\* File::read into `length` zero bytes on a handle whose cursor is at `cursor`: the
\* buffer and the cursor after.
File_read(f, cursor, length) ==
    [bytes |-> [i \in 1..length |-> IF cursor + i <= Len(f) THEN f[cursor + i] ELSE B(0)],
     cursor |-> IF cursor >= Len(f) THEN cursor ELSE cursor + Min(length, Len(f) - cursor)]

\* read_offset on such a handle.
read_offset_at(f, cursor, offset, length) == File_read(f, File_seek(cursor, offset), length)

\* The read of the stream as it would be if it read at the cursor it finds.
stream_read_here(f, cursor, start, read, size) ==
    File_read(f, cursor, Min(size - read, CHUNK_SIZE))

\* The read a file-window stream makes when it is polled, having yielded `read` of its
\* `size` bytes.
stream_read(f, cursor, start, read, size) ==
    read_offset_at(f, cursor, start + read, Min(size - read, CHUNK_SIZE))

\* The stream from_file_position makes: it reads through a clone of the handle.
WindowStream(start, size) ==
    [open |-> TRUE, start |-> start, size |-> size, read |-> 0, got |-> <<>>, done |-> FALSE]

\* Bundles of two items signed elsewhere.
SharedBundles ==
    {<<ExternalItem(1, "counted", a), ExternalItem(1, "counted", b)>> :
        a, b \in Payloads \cup CutPayloads}

\* BundlrTx::from_file_position for the i-th item of the bundle file, on the one File.
OpenItem(i, checked) ==
    /\ Alive /\ file # <<>>
    /\ i \in 1..Min(HeaderCount, MaxItems) /\ ~streams.items[i].open
    /\ Let(from_file_position(file, HeaderSize(i), ItemOffset(i), HeaderSize(i), checked),
           LAMBDA r :
           /\ streams' =
                 [cursor |-> read_offset_at(file, streams.cursor, ItemOffset(i),
                                            HeaderSize(i)).cursor,
                  items |-> IF r.res # "Ok" THEN streams.items
                            ELSE [streams.items EXCEPT
                                     ![i] = WindowStream(r.item.data.start, r.item.data.size)]]
           /\ last' = Last("from_file_position", r.res, r.detail, <<>>))
    /\ UNCHANGED <<tx, buf, file, sent, msgs, hist, retry, polling, funding>>

\* One poll of the data stream of the i-th item: the next chunk, or the end.  The
\* streams are not Send and read_offset does not await between its seek and its read,
\* so a poll is one step.
Poll(i) ==
    /\ Alive
    /\ i \in 1..MaxItems /\ streams.items[i].open /\ ~streams.items[i].done
    /\ Let(streams.items[i], LAMBDA st :
           IF st.read < st.size
           THEN Let(stream_read(file, streams.cursor, st.start, st.read, st.size), LAMBDA b :
                    streams' = [cursor |-> b.cursor,
                                items |-> [streams.items EXCEPT
                                              ![i] = [st EXCEPT !.read = st.read + Len(b.bytes),
                                                                !.got = Append(st.got, b.bytes)]]])
           ELSE streams' = [streams EXCEPT !.items[i].done = TRUE])
    /\ last' = Last("poll", "Ok", <<>>, [stream |-> i, cursor |-> streams.cursor])
    /\ UNCHANGED <<tx, buf, file, sent, msgs, hist, retry, polling, funding>>

NextShared ==
    \/ \E items \in SharedBundles : WriteMixed(items)
    \/ \E i \in 1..MaxItems, checked \in BOOLEAN : OpenItem(i, checked)
    \/ \E i \in 1..MaxItems : Poll(i)

SpecShared == Init /\ [][NextShared]_vars

\* C26: whatever the order in which the items are made and their streams polled, the
\* stream of item i is the window of item i, from the data start of the item to its
\* end, and what it has yielded so far are the bytes of the file in that window.
C26_OwnWindow ==
    \A i \in 1..MaxItems :
       streams.items[i].open =>
          /\ streams.items[i].start = ItemOffset(i) + DataStartOf(i)
          /\ streams.items[i].size = HeaderSize(i) - DataStartOf(i)
          /\ streams.items[i].read <= streams.items[i].size
          /\ Concat(streams.items[i].got)
                = SubSeq(file, streams.items[i].start + 1,
                         streams.items[i].start + streams.items[i].read)
          /\ streams.items[i].done => streams.items[i].read = streams.items[i].size

\* The stream of the first item was polled when the cursor stood where a read for the
\* second item had left it, and both streams yielded the data of their own items,
\* which differ.
C26_Witness ==
    /\ last.op = "poll" /\ last.out.stream = 1
    /\ streams.items[1].open /\ streams.items[2].open
    /\ last.out.cursor = streams.items[2].start + streams.items[2].read
    /\ streams.items[2].read > 0
    /\ Concat(streams.items[1].got) = Bytes(<<104, 105>>)
    /\ Concat(streams.items[2].got) = Bytes(<<104, 105, 106>>)


-----------------------------------------------------------------------------
(* Posting a chunk with retries *)

\* Number of times to retry posting a chunk.
CHUNKS_RETRIES == 10

\* What the network does with a request: it is not delivered, or it is answered with
\* a status.
Answer(delivered, status) == [sent |-> delivered, status |-> status]

Answers == {Answer(FALSE, 0), Answer(TRUE, 200), Answer(TRUE, 500)}

\* Uploader::post_chunk.  The url of the chunk is joined from the currency, the upload
\* id and the offset, which join to a valid url.
post_chunk(upload_id, offset, answer) ==
    IF upload_id = "None" THEN Result("UploadError", 0)
    ELSE IF ~answer.sent THEN Result("PostChunkError", 0)
    ELSE IF answer.status = 200 THEN Result("Ok", offset)
    ELSE Result("RequestError", answer.status)

\* The loop condition as it would be with one retry more.
more_retries_inclusive(retries) == retries <= CHUNKS_RETRIES

\* while retries < CHUNKS_RETRIES
more_retries(retries) == retries < CHUNKS_RETRIES

\* post_chunk_with_retries up to its loop: the first call of post_chunk.
PostChunkWithRetries(upload_id, offset, answer) ==
    /\ retry.pc = "idle"
    /\ Let(post_chunk(upload_id, offset, answer), LAMBDA resp :
           retry' = [pc |-> "loop", upload_id |-> upload_id, offset |-> offset,
                     retries |-> 0, resp |-> resp, calls |-> <<resp>>, out |-> <<>>])
    /\ UNCHANGED <<tx, buf, file, last, sent, msgs, hist, streams, polling, funding>>

\* One turn of the loop, or the return after it.
RetryTurn(answer) ==
    /\ retry.pc = "loop"
    /\ IF more_retries(retry.retries)
       THEN IF retry.resp.res = "Ok"
            THEN retry' = [retry EXCEPT !.pc = "done", !.out = retry.resp]
            ELSE Let(post_chunk(retry.upload_id, retry.offset, answer), LAMBDA resp :
                     retry' = [retry EXCEPT !.retries = retry.retries + 1, !.resp = resp,
                                            !.calls = Append(retry.calls, resp)])
       ELSE retry' = [retry EXCEPT !.pc = "done", !.out = retry.resp]
    /\ UNCHANGED <<tx, buf, file, last, sent, msgs, hist, streams, polling, funding>>

NextRetry ==
    \/ \E upload_id \in {"None", "id"}, offset \in {0, CHUNK_SIZE}, answer \in Answers :
          PostChunkWithRetries(upload_id, offset, answer)
    \/ \E answer \in Answers : RetryTurn(answer)

SpecRetry == Init /\ [][NextRetry]_vars

\* Every call of post_chunk returns and the sleep between two calls ends, so the
\* function goes on while it has not returned.
SpecRetryLive == SpecRetry /\ WF_vars(\E answer \in Answers : RetryTurn(answer))

\* At most CHUNKS_RETRIES + 1 calls; none after a call that succeeded; what is
\* returned is the outcome of the last call, which is the first success if there is
\* one, and which follows CHUNKS_RETRIES + 1 calls if there is none.
RetrySafe ==
    /\ Len(retry.calls) <= CHUNKS_RETRIES + 1
    /\ \A k \in 1..Len(retry.calls) - 1 : retry.calls[k].res # "Ok"
    /\ retry.pc = "done" =>
          /\ retry.out = retry.calls[Len(retry.calls)]
          /\ retry.out.res # "Ok" => Len(retry.calls) = CHUNKS_RETRIES + 1

\* C27: post_chunk_with_retries calls post_chunk at most CHUNKS_RETRIES + 1 times and
\* never after a success, returns the first success or else the error of the last
\* attempt, and returns in every case.
C27_Retries == []RetrySafe /\ (retry.pc = "loop" ~> retry.pc = "done")

\* The call returned the success of its last attempt, ten failures before it.
C27_Witness ==
    /\ retry.pc = "done"
    /\ Len(retry.calls) = CHUNKS_RETRIES + 1
    /\ retry.out = Result("Ok", CHUNK_SIZE)
    /\ \A k \in 1..CHUNKS_RETRIES : retry.calls[k].res \in {"PostChunkError", "RequestError"}


-----------------------------------------------------------------------------
(* Waiting for the confirmations of a transaction *)

\* Number of confirmations needed to consider a transaction funded.
CONFIRMATIONS_NEEDED == 5

\* The most status polls of one call that are followed.
MaxPolls == 3

\* What get_tx_status returns: an error, or a status code with or without a
\* transaction status that carries a number of confirmations.
StatusReport(ok, some, confirmations) ==
    [ok |-> ok, some |-> some, confirmations |-> confirmations]

StatusReports ==
    {StatusReport(FALSE, FALSE, 0), StatusReport(TRUE, FALSE, 0)}
    \cup {StatusReport(TRUE, TRUE, n) :
             n \in {0, CONFIRMATIONS_NEEDED - 1, CONFIRMATIONS_NEEDED, CONFIRMATIONS_NEEDED + 1}}

\* The loop condition as it would be if one confirmation fewer were enough.
needs_more_but_one(confirmations) == confirmations < CONFIRMATIONS_NEEDED - 1

\* while confirmations < CONFIRMATIONS_NEEDED
needs_more(confirmations) == confirmations < CONFIRMATIONS_NEEDED

\* ConfirmationPoll::await_confirmation up to its loop.
AwaitConfirmation ==
    /\ polling.pc = "idle"
    /\ polling' = [pc |-> "loop", confirmations |-> 0, reports |-> <<>>]
    /\ UNCHANGED <<tx, buf, file, last, sent, msgs, hist, streams, retry, funding>>

\* One turn of the loop: the poll, the expect on its result, the count, the sleep; or
\* the return after the loop.
PollTurn(report) ==
    /\ polling.pc = "loop"
    /\ IF needs_more(polling.confirmations)
       THEN /\ Len(polling.reports) < MaxPolls
            /\ polling' =
                  [pc |-> IF report.ok THEN "loop" ELSE "panic",
                   confirmations |-> IF report.ok /\ report.some THEN report.confirmations
                                     ELSE polling.confirmations,
                   reports |-> Append(polling.reports, report)]
       ELSE polling' = [polling EXCEPT !.pc = "done"]
    /\ UNCHANGED <<tx, buf, file, last, sent, msgs, hist, streams, retry, funding>>

NextPolling ==
    \/ AwaitConfirmation
    \/ \E report \in StatusReports : PollTurn(report)

SpecPolling == Init /\ [][NextPolling]_vars

\* Every poll returns and every sleep ends, so the function goes on while it has not
\* returned.
SpecPollingLive == SpecPolling /\ WF_vars(\E report \in StatusReports : PollTurn(report))

\* The poll reported a transaction status with enough confirmations.
Enough(report) ==
    report.ok /\ report.some /\ report.confirmations >= CONFIRMATIONS_NEEDED

\* The call has returned only if a poll reported enough confirmations.
ReturnsConfirmed ==
    polling.pc = "done" => \E k \in 1..Len(polling.reports) : Enough(polling.reports[k])

\* A poll that reports no transaction status leaves the count as it was, and the call
\* stays in its loop.
NoStatusStep ==
    (/\ Len(polling.reports') = Len(polling.reports) + 1
     /\ polling.reports'[Len(polling.reports')] = StatusReport(TRUE, FALSE, 0))
    => /\ polling'.confirmations = polling.confirmations
       /\ polling'.pc = "loop"

\* C28: await_confirmation returns only after a poll reported CONFIRMATIONS_NEEDED
\* confirmations or more; once a poll has reported that many, it returns; and a poll
\* without a transaction status changes neither the count nor that the polling goes on.
C28_Confirmations ==
    /\ []ReturnsConfirmed
    /\ [][NoStatusStep]_vars
    /\ ((/\ polling.pc = "loop" /\ polling.reports # <<>>
          /\ Enough(polling.reports[Len(polling.reports)])) ~> polling.pc = "done")

\* The call returned after a poll without a status, a poll short of one confirmation
\* and a poll with just enough of them.
C28_Witness ==
    /\ polling.pc = "done"
    /\ polling.reports = <<StatusReport(TRUE, FALSE, 0),
                           StatusReport(TRUE, TRUE, CONFIRMATIONS_NEEDED - 1),
                           StatusReport(TRUE, TRUE, CONFIRMATIONS_NEEDED)>>


-----------------------------------------------------------------------------
(* Funding an account of the bundler *)

\* A call fund made: to the chain (get_fee, create_tx, send_tx) or to the bundler
\* (report), whether it succeeded, the fee or the transaction id it carried or
\* returned, and the status the bundler answered with.
Called(call, ok, val, status) == [call |-> call, ok |-> ok, val |-> val, status |-> status]

\* The answers of the bundler to the report.
FundAnswers ==
    {Answer(FALSE, 0), Answer(TRUE, 200), Answer(TRUE, 299), Answer(TRUE, 300),
     Answer(TRUE, 500)}

\* The status check as it would be if every status were a success.
is_success_any(status) == TRUE

\* StatusCode::is_success
is_success(status) == status >= 200 /\ status <= 299

\* check_and_return: the kind of its result.  readable: the body of an answer that is
\* not a success can be read.  The value of a success is parsed from the body, or the
\* default; fund drops it.
check_and_return(answer, readable) ==
    IF ~answer.sent THEN "ResponseError"
    ELSE IF ~is_success(answer.status)
    THEN IF readable THEN "ResponseError" ELSE "ParseError"
    ELSE "Ok"

FundReturns(res) == [funding EXCEPT !.pc = "done", !.out = Result(res, res = "Ok")]

\* fund up to its first await: the address of the bundler for the currency.
Fund(has_address, needs_fee, amount) ==
    /\ funding.pc = "idle"
    /\ funding' =
          IF ~has_address
          THEN [FundReturns("InvalidKey") EXCEPT !.amount = amount, !.needs_fee = needs_fee]
          ELSE [funding EXCEPT !.pc = IF needs_fee THEN "get_fee" ELSE "create_tx",
                               !.has_address = TRUE, !.needs_fee = needs_fee,
                               !.amount = amount, !.fee = 0]
    /\ UNCHANGED <<tx, buf, file, last, sent, msgs, hist, streams, retry, polling>>

\* self.currency.get_fee(amount, to, multiplier).await?
GetFee(ok, fee) ==
    /\ funding.pc = "get_fee"
    /\ funding' =
          [(IF ok THEN [funding EXCEPT !.pc = "create_tx", !.fee = fee]
                  ELSE FundReturns("ChainError"))
           EXCEPT !.log = Append(funding.log, Called("get_fee", ok, IF ok THEN fee ELSE 0, 0))]
    /\ UNCHANGED <<tx, buf, file, last, sent, msgs, hist, streams, retry, polling>>

\* self.currency.create_tx(amount, to, fee).await?
CreateTx(ok) ==
    /\ funding.pc = "create_tx"
    /\ funding' =
          [(IF ok THEN [funding EXCEPT !.pc = "send_tx"] ELSE FundReturns("ChainError"))
           EXCEPT !.log = Append(funding.log, Called("create_tx", ok, funding.fee, 0))]
    /\ UNCHANGED <<tx, buf, file, last, sent, msgs, hist, streams, retry, polling>>

\* self.currency.send_tx(tx).await?
SendTx(ok, tx_id) ==
    /\ funding.pc = "send_tx"
    /\ funding' =
          [(IF ok THEN [funding EXCEPT !.pc = "report", !.tx_id = tx_id]
                  ELSE FundReturns("ChainError"))
           EXCEPT !.log = Append(funding.log, Called("send_tx", ok, IF ok THEN tx_id ELSE 0, 0))]
    /\ UNCHANGED <<tx, buf, file, last, sent, msgs, hist, streams, retry, polling>>

\* The post of the transaction id to account/balance of the bundler, and the return.
Report(answer, readable) ==
    /\ funding.pc = "report"
    /\ funding' =
          [FundReturns(check_and_return(answer, readable))
           EXCEPT !.log = Append(funding.log,
                                 Called("report", answer.sent, funding.tx_id, answer.status))]
    /\ UNCHANGED <<tx, buf, file, last, sent, msgs, hist, streams, retry, polling>>

NextFunding ==
    \/ \E has_address, needs_fee \in BOOLEAN, amount \in {1, 5} :
          Fund(has_address, needs_fee, amount)
    \/ \E ok \in BOOLEAN, fee \in {0, 7} : GetFee(ok, fee)
    \/ \E ok \in BOOLEAN : CreateTx(ok)
    \/ \E ok \in BOOLEAN, tx_id \in {1, 2} : SendTx(ok, tx_id)
    \/ \E answer \in FundAnswers, readable \in BOOLEAN : Report(answer, readable)

SpecFunding == Init /\ [][NextFunding]_vars

\* The places of the log where the call was made.
CallsOf(call) == {k \in 1..Len(funding.log) : funding.log[k].call = call}

\* C29: without an address for the currency fund makes no call and returns InvalidKey;
\* a transaction is created with the fee that get_fee returned before (with no fee and
\* no get_fee when the currency needs none); the id reported to the bundler is the id
\* a successful send returned before; and Ok(true) is returned only when the last call
\* was the report and it was answered with a status from 200 to 299.
C29_FundOrder ==
    /\ ~funding.has_address =>
          /\ funding.log = <<>>
          /\ funding.pc = "done" => funding.out = Result("InvalidKey", FALSE)
    /\ \A k \in CallsOf("create_tx") :
          IF funding.needs_fee
          THEN \E j \in CallsOf("get_fee") :
                  j < k /\ funding.log[j].ok /\ funding.log[j].val = funding.log[k].val
          ELSE funding.log[k].val = 0 /\ CallsOf("get_fee") = {}
    /\ \A k \in CallsOf("report") :
          \E j \in CallsOf("send_tx") :
             j < k /\ funding.log[j].ok /\ funding.log[j].val = funding.log[k].val
    /\ (funding.pc = "done" /\ funding.out = Result("Ok", TRUE)) =>
          /\ funding.log # <<>>
          /\ funding.log[Len(funding.log)].call = "report"
          /\ funding.log[Len(funding.log)].ok
          /\ funding.log[Len(funding.log)].status \in 200..299

\* fund returned Ok(true) after the fee, the transaction, the send and a report that
\* was answered with 299.
C29_Witness ==
    /\ funding.pc = "done" /\ funding.out = Result("Ok", TRUE)
    /\ funding.log = <<Called("get_fee", TRUE, 7, 0), Called("create_tx", TRUE, 7, 0),
                       Called("send_tx", TRUE, 2, 0), Called("report", TRUE, 2, 299)>>


-----------------------------------------------------------------------------
(* Declared sizes that are smaller than the prefix of the item *)

NextSizes ==
    \/ NextWindows
    \/ \E size \in {0, Len(buf)}, checked \in BOOLEAN : FromFilePosition(size, checked)

SpecSizes == Init /\ [][NextSizes]_vars

\* C30: when from_file_position is given a size smaller than the prefix of the item,
\* and when verify_file_bundle comes to an item whose header declares such a size, the
\* outcome is an error: not a panic, and not a stream of a wrapped length.
C30_ShortSizeIsError ==
    /\ (last.op = "from_file_position" /\ hist.window.size < DataStartOf(1)) =>
          last.res \notin {"Ok", "Panic", "Unbounded"}
    /\ (/\ last.op = "verify_file_bundle"
        /\ \E i \in 1..Len(hist.given) : HeaderSize(i) < DataStartOf(i)) =>
          last.res \notin {"Ok", "Panic", "Unbounded"}

\* C30 fails: verify_file_bundle panicked at the second item, whose header declares
\* fewer bytes than the prefix that was parsed for it.
C30_Fails ==
    /\ last.op = "verify_file_bundle" /\ last.res = "Panic"
    /\ Len(hist.given) = 2
    /\ HeaderSize(1) >= DataStartOf(1)
    /\ HeaderSize(2) < DataStartOf(2)
    /\ hist.given[2].offset = ItemOffset(2)

====
